---- MODULE Spec2Model ----
(***************************************************************************)
(* RunnableAgent of langchain/src/runnable-history.ts: the tool-calling    *)
(* agent loop (stream / invoke), its turn budget _callsLeft, the           *)
(* accumulation of streamed model fragments, and the concurrent dispatch   *)
(* of the tool calls of one turn (runToolCallMessage).                     *)
(*                                                                         *)
(* One RunnableAgent object is constructed (Init) and invoked by           *)
(* NumInvocations callers, one after another or interleaved.  The model    *)
(* capability and the tools are the environment: what the model streams    *)
(* and how each tool call ends are chosen nondeterministically.            *)
(*                                                                         *)
(* The repository's other programs follow, each with its own variables   *)
(* and specification: streamToRxjs (RxSpec), executeExperiment             *)
(* (ExperimentSpec), LangfuseCallbackHandler (LangfuseSpec),               *)
(* circularTransformer (TransformerSpec), proxyConsole / restoreConsole    *)
(* (ConsoleSpec).                                                          *)
(***************************************************************************)
EXTENDS Integers, Sequences, FiniteSets

\* ---------------------------------------------------------------- bounds
NumInvocations == 2
\* model calls the environment serves, over all invocations
MaxTurns == 2
\* tool calls one AI message carries
MaxToolCallsPerTurn == 2
\* tool calls the model issues, over all invocations
MaxToolCalls == 2

\* `private _callsLeft = 10` / `options.maxToolCalls ?? 10`
DefaultMaxToolCalls == 10

Invocations == 1..NumInvocations

\* ---------------------------------------------------------- configuration
\* an optional number: <<>> is undefined, <<n>> is n
MaxToolCallsOptions == {<<>>} \cup {<<n>> : n \in -1..2}

\* names the model may put in a tool call: "echo" is options.tools[0],
\* "stop" is the name of options.tool_response (when configured), "ghost" is
\* a name no configured tool has
EchoName == "echo"
StopName == "stop"
GhostName == "ghost"
ToolCallNames == {EchoName, StopName, GhostName}

VARIABLES
    options,          \* RunnableAgentOptions (readonly)
    _callsLeft,       \* RunnableAgent._callsLeft
    history,          \* messages of the store options.history
    pc,               \* per invocation: where stream()'s generator stands
    failure,          \* per invocation: the error thrown out of invoke/stream
    initialHistory,   \* per invocation: stream() local
    sessionHistory,   \* per invocation: stream() local (InMemoryChatMessageHistory)
    agentResponse,    \* per invocation: stream() local, the accumulated chunk
    isToolCall,       \* per invocation: stream() local
    streamed,         \* per invocation: the for-await body has run this turn
    promises,         \* per invocation: the promises of runToolCallMessage
    completion,       \* per invocation: the order in which they settled
    response,         \* per invocation: invoke() local, the last chunk drained
    modelCalls,       \* per invocation: number of boundLlm.stream() calls made
    toolCallsIssued,  \* tool_call_chunks the model has streamed, over all invocations
    liveMessages,     \* the store's getMessages() hands out the store's own array
    messages          \* per invocation: stream() local, what the model was last given

\* the variables of RunnableAgent and its invocations
agentVars == <<options, _callsLeft, history, pc, failure, initialHistory,
               sessionHistory, agentResponse, isToolCall, streamed, promises,
               completion, response, modelCalls, toolCallsIssued, liveMessages,
               messages>>

\* streamToRxjs (langchain/src/runnable-history.ts)
VARIABLES
    stream,           \* the source IterableReadableStream: its chunks, and how it ends
    taken,            \* chunks read from the stream so far (one shared reader)
    streamOver,       \* the stream's end, or its failure, has been read
    producer,         \* per subscriber: where the async producer of its subscription stands
    notified          \* per subscriber: subscriber.next/complete/error calls made, in order

rxVars == <<stream, taken, streamOver, producer, notified>>

\* RunCommand.executeExperiment (ai-testing/src/commands/run.ts)
VARIABLES
    module,           \* the AITestingModule: dataset length and number of evaluators
    sema,             \* the Sema: free permits and the queue of waiting acquirers
    holders,          \* tasks whose acquire() resolved and which have not released
    task,             \* per task: where its async function stands
    progress,         \* progressBar.increment() calls made
    runResult,        \* per example: how runnable.invoke ended
    evalResult,       \* per example and evaluator: how the evaluator ended
    testResultsMatrix,\* per example: what its dataset.map callback resolved to
    finished          \* Promise.all over the dataset resolved, the bar was stopped

experimentVars == <<module, sema, holders, task, progress, runResult,
                    evalResult, testResultsMatrix, finished>>

\* LangfuseCallbackHandler (langfuse/src/langfuse.utils.ts)
VARIABLES
    runs,             \* the LangChain run tree: per run its parent and its name
    runState,         \* per run: which callback events were emitted for it
    root,             \* LangfuseCallbackHandler.root
    observationMap,   \* LangfuseCallbackHandler.observationMap
    observationEnds   \* per observation: the events that called observation.end()

langfuseVars == <<runs, runState, root, observationMap, observationEnds>>

\* circularTransformer (langfuse/src/langfuse.interceptor.ts)
VARIABLES
    data,             \* the input: an object graph, and what the transformers do
    visited,          \* the objects that are keys of the visited Map
    transformCalls,   \* per call of transform (by its path from the root): where it stands
    expansions        \* per object: how often its items / entries were mapped

transformerVars == <<data, visited, transformCalls, expansions>>

\* proxyConsole / restoreConsole (ai-testing/src/modules/console-proxy.ts)
VARIABLES
    proxied,          \* the global console is the Proxy
    logs,             \* the module-level logs array
    printed,          \* calls that reached the original console, in order
    consoleCalls,     \* console calls made so far, with the cycle each was made in
    cycle             \* number of proxyConsole() calls made

consoleVars == <<proxied, logs, printed, consoleCalls, cycle>>

vars == <<agentVars, rxVars, experimentVars, langfuseVars, transformerVars,
          consoleVars>>

\* ---------------------------------------------------------------- messages
HumanMessage(i) == [type |-> "human", input |-> i]
PriorMessage == [type |-> "human", input |-> 0]

\* An accumulated AIMessageChunk.  calls are the names of its
\* tool_call_chunks in index order; parsed tells whether their argument
\* text currently parses.  While it does not, the chunk's tool_calls view
\* is empty ("tool_call can go undefined, because it is building the args").
EmptyChunk == [text |-> FALSE, calls |-> <<>>, parsed |-> TRUE]

\* AIMessageChunk.tool_calls: call k has id k and name calls[k]
ToolCallsOf(chunk) == IF chunk.parsed THEN chunk.calls ELSE <<>>

\* the AI message as history and snapshots carry it
AIMessage(chunk) ==
    [type |-> "ai", text |-> chunk.text, tool_calls |-> ToolCallsOf(chunk)]

\* ------------------------------------------------------------ tool results
\* JSON.stringify of the values the tools of the model produce.  A value
\* that JSON.stringify rejects (a cycle, a BigInt) has no text: the call
\* throws a TypeError.
ResultValue == "result"
ErrorRecord == "{error: e.message}"
RaisedValue == "raised value"
Unserializable == "unserializable"

Serializable(value) == value # Unserializable

Stringify(value) ==
    CASE value = ResultValue -> "{\"echoed\":\"ping\"}"
      [] value = ErrorRecord -> "{\"error\":\"m\"}"
      [] value = RaisedValue -> "{\"code\":7}"
      [] OTHER -> "TypeError"

\* JSON.stringify({type: 'text', text: JSON.stringify({success: false,
\*   error: `Tool "${name}" was not found.`})})
NotFoundContent(name) ==
    CASE name = GhostName ->
           "{\"type\":\"text\",\"text\":\"{\\\"success\\\":false,\\\"error\\\":\\\"Tool \\\\\\\"ghost\\\\\\\" was not found.\\\"}\"}"
      [] name = StopName ->
           "{\"type\":\"text\",\"text\":\"{\\\"success\\\":false,\\\"error\\\":\\\"Tool \\\\\\\"stop\\\\\\\" was not found.\\\"}\"}"
      [] OTHER ->
           "{\"type\":\"text\",\"text\":\"{\\\"success\\\":false,\\\"error\\\":\\\"Tool \\\\\\\"echo\\\\\\\" was not found.\\\"}\"}"

\* mutant of ToolMessage: the fallback of `tool_call.id ?? ''` for every call
ToolMessageWithoutId(id, name, content, status) ==
    [type |-> "tool", name |-> name, tool_call_id |-> 0,
     status |-> status, content |-> content]

\* _createToolResponse, after JSON.stringify has produced content
ToolMessage(id, name, content, status) ==
    [type |-> "tool", name |-> name, tool_call_id |-> id,
     status |-> status, content |-> content]

\* how the body of the try block ends for a resolved tool call
Outcomes == {"returns", "returns_unserializable", "invalid_args",
             "throws_error", "throws_value", "throws_unserializable"}

\* zodSchema.parse(tool_call.args) throws before the capability is called
InvokesCapability(outcome) == outcome \in Outcomes \ {"invalid_args"}

\* what the try block returns, or what its catch clause receives
Returned(outcome) ==
    IF outcome = "returns" THEN ResultValue ELSE Unserializable

Caught(outcome) ==
    CASE outcome = "invalid_args" -> "ZodError"
      [] outcome = "throws_error" -> "Error"
      [] outcome = "throws_value" -> RaisedValue
      [] OTHER -> Unserializable

\* mutant of Throws: zodSchema.parse moved out of the try block's reach
ThrowsFromCapability(outcome) ==
    outcome \in {"throws_error", "throws_value", "throws_unserializable"}

Throws(outcome) == outcome \notin {"returns", "returns_unserializable"}

\* e instanceof Error ? { error: e.message } : e
ErrorResponse(e) == IF e \in {"ZodError", "Error"} THEN ErrorRecord ELSE e

\* [...options.tools, ...(toolResponse ? [toolResponse] : [])].find(...)
FindTool(name) ==
    \/ name = EchoName
    \/ name = StopName /\ options.tool_response

\* a promise of runToolCallMessage; outcome records how its call ended
Pending == [state |-> "pending", value |-> <<>>, outcome |-> "none"]
Fulfilled(msg, outcome) == [state |-> "fulfilled", value |-> <<msg>>, outcome |-> outcome]
Rejected(outcome) == [state |-> "rejected", value |-> <<>>, outcome |-> outcome]

\* mutant of RunToolCall: handleToolEnd is called inside the try block
RunToolCallEndInTry(id, name, outcome, traced) ==
    LET toolResponse == IF Throws(outcome) THEN ErrorResponse(Caught(outcome))
                        ELSE Returned(outcome)
        status == IF Throws(outcome) THEN "error" ELSE "success"
    IN  IF ~Throws(outcome) /\ traced /\ ~Serializable(Returned(outcome))
        THEN Fulfilled(ToolMessage(id, name, Stringify(ErrorRecord), "error"),
                       outcome)
        ELSE IF Serializable(toolResponse)
        THEN Fulfilled(ToolMessage(id, name, Stringify(toolResponse), status),
                       outcome)
        ELSE Rejected(outcome)

\* the promise of one tool call once its async function has run: the
\* message it resolves to, or rejected when JSON.stringify throws, in
\* _createToolResponse or in the argument of handleToolEnd, neither of
\* which a try block encloses.  traced: a callback handler is present
\* (callbackHandler?.handleToolEnd short-circuits without one).
RunToolCall(id, name, outcome, traced) ==
    LET toolResponse == IF Throws(outcome) THEN ErrorResponse(Caught(outcome))
                        ELSE Returned(outcome)
        status == IF Throws(outcome) THEN "error" ELSE "success"
    IN  IF ~Throws(outcome) /\ traced /\ ~Serializable(Returned(outcome))
        THEN Rejected(outcome)
        ELSE IF Serializable(toolResponse)
        THEN Fulfilled(ToolMessage(id, name, Stringify(toolResponse), status),
                       outcome)
        ELSE Rejected(outcome)

\* mutant of NotFoundPromise: the status argument is left to its default
NotFoundPromiseDefaultStatus(id, name) ==
    Fulfilled(ToolMessage(id, name, NotFoundContent(name), "success"), "not_found")

NotFoundPromise(id, name) ==
    Fulfilled(ToolMessage(id, name, NotFoundContent(name), "error"), "not_found")

\* -------------------------------------------------------------- helpers
RECURSIVE SumTo(_, _)
SumTo(f, n) == IF n = 0 THEN 0 ELSE f[n] + SumTo(f, n - 1)

TotalModelCalls == SumTo(modelCalls, NumInvocations)

\* options.maxToolCalls ?? 10
Coalesce(opt) == IF opt = <<>> THEN DefaultMaxToolCalls ELSE opt[1]

\* the store's addMessage / addMessages, when a store is configured
StoreAdd(msgs) == IF options.history THEN history \o msgs ELSE history

\* ------------------------------------------------- the other programs
\* The repository's other programs share no state with RunnableAgent.  Each
\* has its own variables and its own specification further down; here are
\* their bounds and the state each is in while it is not running.

\* subscriptions made on one Observable returned by streamToRxjs
NumSubscribers == 2
\* chunks the source stream holds
MaxChunks == 3
NumChunkValues == 2

Subscribers == 1..NumSubscribers
ChunkValues == 1..NumChunkValues

RxIdle ==
    /\ stream = [chunks |-> <<>>, fails |-> FALSE]
    /\ taken = 0
    /\ streamOver = FALSE
    /\ producer = [s \in Subscribers |-> "cold"]
    /\ notified = [s \in Subscribers |-> <<>>]

\* examples of the dataset, evaluators of the module
MaxDataLen == 2
MaxEvalLen == 2

Examples == 1..MaxDataLen
Evaluators == 1..MaxEvalLen
\* <<idx, 0>> is the dataset.map callback of example idx (the test case),
\* <<idx, e>> the module.evaluators.map callback of evaluator e on it
Tasks == Examples \X (0..MaxEvalLen)

ExperimentIdle ==
    /\ module = [dataLen |-> 0, evalLen |-> 0]
    /\ sema = [free |-> 0, waiting |-> <<>>]
    /\ holders = {}
    /\ task = [t \in Tasks |-> "absent"]
    /\ progress = 0
    /\ runResult = [idx \in Examples |-> "none"]
    /\ evalResult = [t \in Tasks |-> "none"]
    /\ testResultsMatrix = [idx \in Examples |-> <<>>]
    /\ finished = FALSE

\* runs of the LangChain run tree the handler is told about
NumRuns == 3
Runs == 1..NumRuns

\* an entry of observationMap: nothing, the observation a run registered
\* (named after that run), or the run id of the parent (ParentRunId)
NoEntry == [kind |-> "none", id |-> 0]
ObservationOf(r) == [kind |-> "observation", id |-> r]
ParentRunId(p) == [kind |-> "parent", id |-> p]

LangfuseIdle ==
    /\ runs = [r \in Runs |-> [parent |-> 0, name |-> "Chain"]]
    /\ runState = [r \in Runs |-> "new"]
    /\ root = 0
    /\ observationMap = [r \in Runs |-> NoEntry]
    /\ observationEnds = [r \in Runs |-> <<>>]

\* objects (arrays and plain objects) of the input graph, items of one object
NumObjects == 2
MaxItems == 2
Objects == 1..NumObjects

\* a call of transform is named by the item positions that lead to its
\* argument from the root: <<>> is transform(data) of line 209
Paths == UNION {[1..n -> 1..MaxItems] : n \in 0..NumObjects}

TransformerIdle ==
    /\ data = [kind |-> [o \in Objects |-> "array"],
               items |-> [o \in Objects |-> <<>>],
               async |-> FALSE,
               matches |-> {}]
    /\ visited = {}
    /\ transformCalls = [p \in Paths |-> "none"]
    /\ expansions = [o \in Objects |-> 0]

\* console calls made, proxyConsole() calls made
MaxConsoleCalls == 3
MaxCycles == 2

ConsoleIdle ==
    /\ proxied = FALSE
    /\ logs = <<>>
    /\ printed = <<>>
    /\ consoleCalls = <<>>
    /\ cycle = 0

\* ------------------------------------------------------------------ Init
Init ==
    /\ options \in [maxToolCalls : MaxToolCallsOptions,
                    tool_response : BOOLEAN,
                    bindTools : BOOLEAN,
                    history : BOOLEAN]
    /\ _callsLeft = Coalesce(options.maxToolCalls)
    /\ history = IF options.history THEN <<PriorMessage>> ELSE <<>>
    /\ pc = [i \in Invocations |-> "idle"]
    /\ failure = [i \in Invocations |-> "none"]
    /\ initialHistory = [i \in Invocations |-> <<>>]
    /\ sessionHistory = [i \in Invocations |-> <<>>]
    /\ agentResponse = [i \in Invocations |-> EmptyChunk]
    /\ isToolCall = [i \in Invocations |-> FALSE]
    /\ streamed = [i \in Invocations |-> FALSE]
    /\ promises = [i \in Invocations |-> <<>>]
    /\ completion = [i \in Invocations |-> <<>>]
    /\ response = [i \in Invocations |-> <<>>]
    /\ modelCalls = [i \in Invocations |-> 0]
    /\ toolCallsIssued = 0
    /\ liveMessages \in IF options.history THEN BOOLEAN ELSE {FALSE}
    /\ messages = [i \in Invocations |-> <<>>]
    /\ RxIdle /\ ExperimentIdle /\ LangfuseIdle /\ TransformerIdle /\ ConsoleIdle

\* --------------------------------------------------------------- actions
\* what the local initialHistory denotes: the list getMessages() returned.
\* The variable holds the store's messages as of that call; a store that
\* hands out its own array (InMemoryChatMessageHistory returns
\* this.messages) makes the local an alias of the store's current content.
InitialHistory(i) == IF liveMessages THEN history ELSE initialHistory[i]

\* messages = [...initialHistory, ...input, ...sessionMessages]
Messages(i) == InitialHistory(i) \o <<HumanMessage(i)>> \o sessionHistory[i]

\* mutant of Invoke: the session history starts from the store's messages
InvokeSessionFromStore(i) ==
    /\ pc[i] = "idle"
    /\ \A j \in 1..(i - 1) : pc[j] # "idle"
    /\ initialHistory' = [initialHistory EXCEPT ![i] =
                            IF options.history THEN history ELSE <<>>]
    /\ sessionHistory' = [sessionHistory EXCEPT ![i] =
                            IF options.history THEN history ELSE <<>>]
    /\ history' = StoreAdd(<<HumanMessage(i)>>)
    /\ response' = [response EXCEPT ![i] = <<>>]
    /\ pc' = [pc EXCEPT ![i] = "loop"]
    /\ UNCHANGED <<rxVars, experimentVars, langfuseVars, transformerVars, consoleVars, options, liveMessages, messages, _callsLeft, failure, agentResponse, isToolCall,
                   streamed, promises, completion, modelCalls, toolCallsIssued>>

\* invoke() -> stream(): the generator's prologue: the store is read, then
\* the human input is added to it.  Invocations are numbered in the order
\* in which they start.
Invoke(i) ==
    /\ pc[i] = "idle"
    /\ \A j \in 1..(i - 1) : pc[j] # "idle"
    /\ initialHistory' = [initialHistory EXCEPT ![i] =
                            IF options.history THEN history ELSE <<>>]
    /\ sessionHistory' = [sessionHistory EXCEPT ![i] = <<>>]
    /\ history' = StoreAdd(<<HumanMessage(i)>>)
    /\ response' = [response EXCEPT ![i] = <<>>]
    /\ pc' = [pc EXCEPT ![i] = "loop"]
    /\ UNCHANGED <<rxVars, experimentVars, langfuseVars, transformerVars, consoleVars, options, liveMessages, messages, _callsLeft, failure, agentResponse, isToolCall,
                   streamed, promises, completion, modelCalls, toolCallsIssued>>

\* mutant of CallsExhausted: the budget check is off by one
CallsExhaustedOffByOne(callsLeft) == callsLeft < 0

\* if (this._callsLeft === 0)
CallsExhausted(callsLeft) == callsLeft = 0

\* mutant of BudgetExhausted: the store is put back to what was read at the start
BudgetExhaustedRollsBack(i) ==
    /\ pc[i] = "loop"
    /\ CallsExhausted(_callsLeft)
    /\ pc' = [pc EXCEPT ![i] = "failed"]
    /\ failure' = [failure EXCEPT ![i] = "Max tool calls reached"]
    /\ history' = IF options.history THEN initialHistory[i] ELSE history
    /\ UNCHANGED <<rxVars, experimentVars, langfuseVars, transformerVars, consoleVars, options, liveMessages, messages, _callsLeft, initialHistory,
                   sessionHistory, agentResponse, isToolCall, streamed, promises,
                   completion, response, modelCalls, toolCallsIssued>>

\* runToolCallingAgent: throw new Error('Max tool calls reached')
BudgetExhausted(i) ==
    /\ pc[i] = "loop"
    /\ CallsExhausted(_callsLeft)
    /\ pc' = [pc EXCEPT ![i] = "failed"]
    /\ failure' = [failure EXCEPT ![i] = "Max tool calls reached"]
    /\ UNCHANGED <<rxVars, experimentVars, langfuseVars, transformerVars, consoleVars, options, liveMessages, messages, _callsLeft, history, initialHistory, sessionHistory,
                   agentResponse, isToolCall, streamed, promises, completion,
                   response, modelCalls, toolCallsIssued>>

\* runToolCallingAgent: this._callsLeft--, then bindTools?.() is undefined
BindUnsupported(i) ==
    /\ pc[i] = "loop"
    /\ ~CallsExhausted(_callsLeft)
    /\ ~options.bindTools
    /\ _callsLeft' = _callsLeft - 1
    /\ pc' = [pc EXCEPT ![i] = "failed"]
    /\ failure' = [failure EXCEPT ![i] = "LLM does not support tool binding"]
    /\ UNCHANGED <<rxVars, experimentVars, langfuseVars, transformerVars, consoleVars, options, liveMessages, messages, history, initialHistory, sessionHistory,
                   agentResponse, isToolCall, streamed, promises, completion,
                   response, modelCalls, toolCallsIssued>>

\* runToolCallingAgent: this._callsLeft--, boundLlm.stream(...); then
\* agentResponse = new AIMessageChunk(''), isToolCall = false
StartTurn(i) ==
    /\ pc[i] = "loop"
    /\ ~CallsExhausted(_callsLeft)
    /\ options.bindTools
    /\ TotalModelCalls < MaxTurns
    /\ _callsLeft' = _callsLeft - 1
    /\ modelCalls' = [modelCalls EXCEPT ![i] = @ + 1]
    /\ agentResponse' = [agentResponse EXCEPT ![i] = EmptyChunk]
    /\ isToolCall' = [isToolCall EXCEPT ![i] = FALSE]
    /\ streamed' = [streamed EXCEPT ![i] = FALSE]
    /\ completion' = [completion EXCEPT ![i] = <<>>]
    /\ pc' = [pc EXCEPT ![i] = "streaming"]
    /\ messages' = [messages EXCEPT ![i] = Messages(i)]
    /\ UNCHANGED <<rxVars, experimentVars, langfuseVars, transformerVars, consoleVars, options, liveMessages, history, failure,
                   initialHistory, sessionHistory, promises, response,
                   toolCallsIssued>>

\* agentResponse.concat(chunk): text is appended, tool_call_chunks are
\* merged by index, and the merged argument text parses or does not
Concat(chunk, addText, addCalls, parsed) ==
    LET calls == chunk.calls \o addCalls
    IN  [text |-> chunk.text \/ addText,
         calls |-> calls,
         parsed |-> IF calls = <<>> THEN TRUE ELSE parsed]

\* if (!isToolCall && agentResponse.tool_calls?.length) isToolCall = true
IsToolCallAfter(was, chunk) == was \/ Len(ToolCallsOf(chunk)) > 0

\* mutant of YieldsSnapshot: every fragment is yielded
YieldsSnapshotAlways(toolCall, chunk) == TRUE

\* the two yield statements of the for-await body
YieldsSnapshot(toolCall, chunk) ==
    IF toolCall THEN Len(ToolCallsOf(chunk)) > 0 ELSE TRUE

\* mutant of Snapshot: the in-progress message alone
SnapshotOfChunkOnly(i, chunk) == <<AIMessage(chunk)>>

\* yield [...sessionMessages, agentResponse]
Snapshot(i, chunk) == sessionHistory[i] \o <<AIMessage(chunk)>>

\* one pass of `for await (const chunk of agentStream)`; invoke() keeps the
\* chunk the generator yields
Fragment(i, addText, addCalls, parsed) ==
    /\ pc[i] = "streaming"
    /\ Len(agentResponse[i].calls) + Len(addCalls) <= MaxToolCallsPerTurn
    /\ toolCallsIssued + Len(addCalls) <= MaxToolCalls
    /\ LET chunk == Concat(agentResponse[i], addText, addCalls, parsed)
           toolCall == IsToolCallAfter(isToolCall[i], chunk)
       IN  /\ agentResponse' = [agentResponse EXCEPT ![i] = chunk]
           /\ isToolCall' = [isToolCall EXCEPT ![i] = toolCall]
           /\ response' = [response EXCEPT ![i] =
                             IF YieldsSnapshot(toolCall, chunk)
                             THEN Snapshot(i, chunk) ELSE @]
    /\ streamed' = [streamed EXCEPT ![i] = TRUE]
    /\ toolCallsIssued' = toolCallsIssued + Len(addCalls)
    /\ UNCHANGED <<rxVars, experimentVars, langfuseVars, transformerVars, consoleVars, options, liveMessages, messages, _callsLeft, history, pc, failure, initialHistory,
                   sessionHistory, promises, completion, modelCalls>>

\* the model's stream, of one fragment or more, ends: the AI message is added to both histories; a
\* tool-call turn starts runToolCallMessage (every promise is created, and
\* pending, before Promise.all is awaited), any other turn breaks.  The
\* generator's `return sessionHistory.getMessages()` is not a yield: the
\* consumer's for-await never sees it.
EndStream(i) ==
    /\ pc[i] = "streaming"
    /\ streamed[i]
    /\ history' = StoreAdd(<<AIMessage(agentResponse[i])>>)
    /\ sessionHistory' = [sessionHistory EXCEPT ![i] =
                            Append(@, AIMessage(agentResponse[i]))]
    /\ IF isToolCall[i]
       THEN /\ promises' = [promises EXCEPT ![i] =
                   [k \in 1..Len(ToolCallsOf(agentResponse[i])) |-> Pending]]
            /\ pc' = [pc EXCEPT ![i] = "tools"]
       ELSE /\ pc' = [pc EXCEPT ![i] = "done"]
            /\ UNCHANGED promises
    /\ UNCHANGED <<rxVars, experimentVars, langfuseVars, transformerVars, consoleVars, options, liveMessages, messages, _callsLeft, failure, initialHistory, agentResponse,
                   isToolCall, streamed, completion, response, modelCalls,
                   toolCallsIssued>>

\* the async function of tool call k when findTool is undefined
ToolNotFound(i, k) ==
    /\ pc[i] \in {"tools", "failed"}
    /\ k \in DOMAIN promises[i]
    /\ promises[i][k].state = "pending"
    /\ ~FindTool(ToolCallsOf(agentResponse[i])[k])
    /\ promises' = [promises EXCEPT ![i][k] =
                      NotFoundPromise(k, ToolCallsOf(agentResponse[i])[k])]
    /\ completion' = [completion EXCEPT ![i] = Append(@, k)]
    /\ UNCHANGED <<rxVars, experimentVars, langfuseVars, transformerVars, consoleVars, options, liveMessages, messages, _callsLeft, history, pc, failure, initialHistory,
                   sessionHistory, agentResponse, isToolCall, streamed, response,
                   modelCalls, toolCallsIssued>>

\* mutant of ToolRun: a for-await loop over the calls in place of map()
ToolRunAfterSiblings(i, k, outcome, traced) ==
    /\ pc[i] \in {"tools", "failed"}
    /\ k \in DOMAIN promises[i]
    /\ promises[i][k].state = "pending"
    /\ \A j \in 1..(k - 1) : promises[i][j].state # "pending"
    /\ FindTool(ToolCallsOf(agentResponse[i])[k])
    /\ promises' = [promises EXCEPT ![i][k] =
                      RunToolCall(k, ToolCallsOf(agentResponse[i])[k], outcome,
                                  traced)]
    /\ completion' = [completion EXCEPT ![i] = Append(@, k)]
    /\ UNCHANGED <<rxVars, experimentVars, langfuseVars, transformerVars, consoleVars, options, liveMessages, messages, _callsLeft, history, pc,
                   failure, initialHistory, sessionHistory, agentResponse,
                   isToolCall, streamed, response, modelCalls, toolCallsIssued>>

\* the async function of tool call k when the tool is found: the try block
\* ends in one of Outcomes.  The calls of a turn settle in any order, and
\* go on settling after Promise.all has rejected.  traced: the run manager
\* gave the call a callback handler; the model lets it differ from call to
\* call, which covers every invocation with and without a run manager.
ToolRun(i, k, outcome, traced) ==
    /\ pc[i] \in {"tools", "failed"}
    /\ k \in DOMAIN promises[i]
    /\ promises[i][k].state = "pending"
    /\ FindTool(ToolCallsOf(agentResponse[i])[k])
    /\ promises' = [promises EXCEPT ![i][k] =
                      RunToolCall(k, ToolCallsOf(agentResponse[i])[k], outcome,
                                  traced)]
    /\ completion' = [completion EXCEPT ![i] = Append(@, k)]
    /\ UNCHANGED <<rxVars, experimentVars, langfuseVars, transformerVars, consoleVars, options, liveMessages, messages, _callsLeft, history, pc, failure, initialHistory,
                   sessionHistory, agentResponse, isToolCall, streamed, response,
                   modelCalls, toolCallsIssued>>

\* Promise.all(promises) rejects as soon as one promise rejects: the error
\* leaves runToolCallMessage, the generator and invoke
ToolsRejected(i) ==
    /\ pc[i] = "tools"
    /\ \E k \in DOMAIN promises[i] : promises[i][k].state = "rejected"
    /\ pc' = [pc EXCEPT ![i] = "failed"]
    /\ failure' = [failure EXCEPT ![i] = "TypeError"]
    /\ UNCHANGED <<rxVars, experimentVars, langfuseVars, transformerVars, consoleVars, options, liveMessages, messages, _callsLeft, history, initialHistory, sessionHistory,
                   agentResponse, isToolCall, streamed, promises, completion,
                   response, modelCalls, toolCallsIssued>>

\* mutant of ToolResponse: the values in the order the promises settled
ToolResponseAsSettled(i) ==
    [k \in 1..Len(promises[i]) |-> promises[i][completion[i][k]].value[1]]

\* what Promise.all resolves to: the values in the order of the promises
ToolResponse(i) == [k \in 1..Len(promises[i]) |-> promises[i][k].value[1]]

\* mutant of ToolStopCalled: the name is compared without a configured stop tool
ToolStopCalledUnconfigured(toolCalls) ==
    \E k \in DOMAIN toolCalls : toolCalls[k] = StopName

\* mutant of ToolStopCalled: every() in place of some()
ToolStopCalledEvery(toolCalls) ==
    /\ options.tool_response
    /\ \A k \in DOMAIN toolCalls : toolCalls[k] = StopName

\* agentResponse.tool_calls?.some(tc => tc.name === tool_response.name)
ToolStopCalled(toolCalls) ==
    /\ options.tool_response
    /\ \E k \in DOMAIN toolCalls : toolCalls[k] = StopName

\* mutant of ToolsDone: Promise.race in place of Promise.all
ToolsDoneOnFirstSettled(i) ==
    LET settled == SelectSeq(promises[i], LAMBDA p : p.state = "fulfilled")
        values == [k \in 1..Len(settled) |-> settled[k].value[1]]
    IN  /\ pc[i] = "tools"
        /\ settled # <<>>
        /\ history' = StoreAdd(values)
        /\ sessionHistory' = [sessionHistory EXCEPT ![i] = @ \o values]
        /\ promises' = [promises EXCEPT ![i] = <<>>]
        /\ pc' = [pc EXCEPT ![i] =
                    IF ToolStopCalled(ToolCallsOf(agentResponse[i]))
                    THEN "done" ELSE "loop"]
        /\ UNCHANGED <<rxVars, experimentVars, langfuseVars, transformerVars, consoleVars, options, liveMessages, messages, _callsLeft, failure,
                       initialHistory, agentResponse, isToolCall, streamed,
                       completion, response, modelCalls, toolCallsIssued>>

\* mutant of ToolsDone: the results are put in front of the session history
ToolsDoneResultsFirst(i) ==
    /\ pc[i] = "tools"
    /\ \A k \in DOMAIN promises[i] : promises[i][k].state = "fulfilled"
    /\ history' = StoreAdd(ToolResponse(i))
    /\ sessionHistory' = [sessionHistory EXCEPT ![i] =
                            ToolResponse(i) \o @]
    /\ promises' = [promises EXCEPT ![i] = <<>>]
    /\ pc' = [pc EXCEPT ![i] =
                IF ToolStopCalled(ToolCallsOf(agentResponse[i]))
                THEN "done" ELSE "loop"]
    /\ UNCHANGED <<rxVars, experimentVars, langfuseVars, transformerVars, consoleVars, options, liveMessages, messages, _callsLeft, failure, initialHistory, agentResponse,
                   isToolCall, streamed, completion, response, modelCalls,
                   toolCallsIssued>>

\* Promise.all has resolved: the results are added to both histories, then
\* the stop check breaks or the loop goes round
ToolsDone(i) ==
    /\ pc[i] = "tools"
    /\ \A k \in DOMAIN promises[i] : promises[i][k].state = "fulfilled"
    /\ history' = StoreAdd(ToolResponse(i))
    /\ sessionHistory' = [sessionHistory EXCEPT ![i] =
                            @ \o ToolResponse(i)]
    /\ promises' = [promises EXCEPT ![i] = <<>>]
    /\ pc' = [pc EXCEPT ![i] =
                IF ToolStopCalled(ToolCallsOf(agentResponse[i]))
                THEN "done" ELSE "loop"]
    /\ UNCHANGED <<rxVars, experimentVars, langfuseVars, transformerVars, consoleVars, options, liveMessages, messages, _callsLeft, failure, initialHistory, agentResponse,
                   isToolCall, streamed, completion, response, modelCalls,
                   toolCallsIssued>>

\* ------------------------------------------------------------------ Next
NewCalls == {<<>>} \cup {<<n>> : n \in ToolCallNames}

Next ==
    \E i \in Invocations :
        \/ Invoke(i)
        \/ BudgetExhausted(i)
        \/ BindUnsupported(i)
        \/ StartTurn(i)
        \/ \E addText \in BOOLEAN, addCalls \in NewCalls, parsed \in BOOLEAN :
               Fragment(i, addText, addCalls, parsed)
        \/ EndStream(i)
        \/ \E k \in 1..MaxToolCallsPerTurn : ToolNotFound(i, k)
        \/ \E k \in 1..MaxToolCallsPerTurn, outcome \in Outcomes,
              traced \in BOOLEAN :
               ToolRun(i, k, outcome, traced)
        \/ ToolsRejected(i)
        \/ ToolsDone(i)

Spec == Init /\ [][Next]_vars

\* ================================================================ claims
\* the configured turn budget N
Budget == Coalesce(options.maxToolCalls)

\* the tool calls of the AI message of invocation i's current turn
TurnCalls(i) == ToolCallsOf(agentResponse[i])

\* ---------------------------------------------------------------- C1
\* C1: for a turn budget N (a count of turns, N >= 0) and every behaviour
\* of the model and the tools, one invocation makes at most N model calls;
\* an invocation that has made N model calls and comes round the loop again
\* fails with 'Max tool calls reached', and that step calls no model and
\* adds no message to the session history or to the store.
C1_AtMostBudgetTurns ==
    [][\A i \in Invocations :
          /\ Budget >= 0 => modelCalls'[i] <= Budget
          /\ (pc[i] = "loop" /\ modelCalls[i] = Budget /\ pc'[i] # "loop") =>
                /\ pc'[i] = "failed"
                /\ failure'[i] = "Max tool calls reached"
                /\ modelCalls'[i] = modelCalls[i]
                /\ sessionHistory'[i] = sessionHistory[i]
                /\ history' = history]_vars

\* an invocation used its whole budget of two turns and failed on the third
C1_Witness ==
    \E i \in Invocations :
        /\ Budget = 2
        /\ modelCalls[i] = 2
        /\ failure[i] = "Max tool calls reached"

\* ---------------------------------------------------------------- C2
\* C2 (as claimed): the turn counter is private to one invocation: whenever
\* an invocation is about to start a turn, the turns left are the
\* configured budget less the turns this invocation itself has taken.
C2_CounterPerInvocation ==
    \A i \in Invocations :
        pc[i] = "loop" => _callsLeft = Budget - modelCalls[i]

\* ---------------------------------------------------------------- C3
\* C3 (as claimed): on normal termination the list invoke returns (the last
\* snapshot drained from the stream) is the final session history.
C3_InvokeReturnsSessionHistory ==
    \A i \in Invocations :
        pc[i] = "done" => response[i] = sessionHistory[i]

\* ---------------------------------------------------------------- C4
\* a stop tool is configured and the AI message of the turn calls it
StopTurn(i) ==
    /\ options.tool_response
    /\ \E k \in DOMAIN TurnCalls(i) : TurnCalls(i)[k] = StopName

\* message m is the tool-result message of call k of invocation i's turn
AnswersCall(m, i, k) ==
    /\ m.type = "tool"
    /\ m.tool_call_id = k
    /\ m.name = TurnCalls(i)[k]

\* C4: when a stop tool is configured and the turn's AI message calls it,
\* the end of the model's stream appends the AI message and dispatches the
\* calls; when the dispatch has resolved, one tool-result message per call
\* (stop or not) is appended in call order and the loop is done; no model
\* call is made from the dispatch on, nor after the loop is done.
C4_StopToolEndsLoop ==
    [][\A i \in Invocations :
          /\ StopTurn(i) =>
                /\ (pc[i] = "streaming" /\ pc'[i] # "streaming") =>
                      /\ pc'[i] = "tools"
                      /\ sessionHistory'[i] =
                            Append(sessionHistory[i], AIMessage(agentResponse[i]))
                /\ (pc[i] = "tools" /\ pc'[i] \notin {"tools", "failed"}) =>
                      /\ pc'[i] = "done"
                      /\ Len(sessionHistory'[i]) =
                            Len(sessionHistory[i]) + Len(TurnCalls(i))
                      /\ \A p \in DOMAIN sessionHistory[i] :
                            sessionHistory'[i][p] = sessionHistory[i][p]
                      /\ \A k \in DOMAIN TurnCalls(i) :
                            AnswersCall(sessionHistory'[i][Len(sessionHistory[i]) + k], i, k)
                /\ pc[i] \in {"tools", "failed"} => modelCalls'[i] = modelCalls[i]
          /\ pc[i] = "done" =>
                /\ pc'[i] = "done"
                /\ modelCalls'[i] = modelCalls[i]
                /\ sessionHistory'[i] = sessionHistory[i]]_vars

\* the model called echo and stop in one turn, echo failed, and the loop
\* stopped after both results
C4_Witness ==
    \E i \in Invocations :
        /\ pc[i] = "done"
        /\ options.tool_response
        /\ modelCalls[i] = 1
        /\ TurnCalls(i) = <<EchoName, StopName>>
        /\ Len(sessionHistory[i]) = 3
        /\ sessionHistory[i][2].name = EchoName
        /\ sessionHistory[i][2].status = "error"
        /\ sessionHistory[i][3].name = StopName

\* ---------------------------------------------------------------- C5
\* C5 (as claimed): a completed AI message with no tool calls is the last
\* entry of the session history, and the loop has stopped.
C5_NoToolCallsStopsLoop ==
    \A i \in Invocations :
        \A p \in DOMAIN sessionHistory[i] :
            (/\ sessionHistory[i][p].type = "ai"
             /\ sessionHistory[i][p].tool_calls = <<>>)
            => (p = Len(sessionHistory[i]) /\ pc[i] = "done")

\* ---------------------------------------------------------------- C6
\* C6: when the dispatch of a turn has resolved, the messages appended to
\* the session history (and to the store) are the results of the turn's
\* calls in call order, the k-th answering the k-th call, in whatever order
\* the calls settled.
C6_ResultsInCallOrder ==
    [][\A i \in Invocations :
          (pc[i] = "tools" /\ pc'[i] \in {"loop", "done"}) =>
              /\ Len(sessionHistory'[i]) = Len(sessionHistory[i]) + Len(TurnCalls(i))
              /\ \A k \in DOMAIN TurnCalls(i) :
                    LET m == sessionHistory'[i][Len(sessionHistory[i]) + k]
                    IN  /\ AnswersCall(m, i, k)
                        /\ m = promises[i][k].value[1]
                        /\ options.history =>
                              /\ Len(history') = Len(history) + Len(TurnCalls(i))
                              /\ history'[Len(history) + k] = m]_vars

\* the second call of a turn settled before the first, and the results
\* were appended
C6_Witness ==
    \E i \in Invocations :
        /\ completion[i] = <<2, 1>>
        /\ pc[i] \in {"loop", "done"}
        /\ Len(sessionHistory[i]) = 3
        /\ sessionHistory[i][2].tool_call_id = 1
        /\ sessionHistory[i][3].tool_call_id = 2

\* ---------------------------------------------------------------- C7
\* the ways a tool call fails: unknown name, validation failure, thrown
\* error or value
FailureOutcomes == {"not_found", "invalid_args", "throws_error",
                    "throws_value", "throws_unserializable"}

\* C7 (as claimed): when the dispatch of a turn ends and one call of the
\* turn has failed, the message every sibling call has resolved to is
\* appended to the session history, at the sibling's place.
C7_FailureIsolatedPerCall ==
    [][\A i \in Invocations :
          (pc[i] = "tools" /\ pc'[i] # "tools") =>
              \A k \in DOMAIN promises[i] :
                  (/\ promises[i][k].state = "fulfilled"
                   /\ \E j \in DOMAIN promises[i] \ {k} :
                         promises[i][j].outcome \in FailureOutcomes)
                  => /\ Len(sessionHistory'[i]) =
                           Len(sessionHistory[i]) + Len(promises[i])
                     /\ sessionHistory'[i][Len(sessionHistory[i]) + k] =
                           promises[i][k].value[1]]_vars

\* ---------------------------------------------------------------- C8
\* a name that is neither a configured tool's nor the stop tool's
UnknownName(name) ==
    \/ name = GhostName
    \/ name = StopName /\ ~options.tool_response

\* a call to an unknown tool resolves to a message with status=error, runs
\* no capability, and its settling fails nothing (shared by both forms of C8)
UnknownCallIsolated(i) ==
    \A k \in DOMAIN promises'[i] :
        UnknownName(TurnCalls(i)[k]) =>
            /\ promises'[i][k].state \in {"pending", "fulfilled"}
            /\ promises'[i][k].state = "fulfilled" =>
                  /\ promises'[i][k].value[1].status = "error"
                  /\ AnswersCall(promises'[i][k].value[1], i, k)
                  /\ ~InvokesCapability(promises'[i][k].outcome)
            /\ (k \in DOMAIN promises[i] /\ promises[i][k] # promises'[i][k]) =>
                  /\ pc'[i] = pc[i]
                  /\ failure' = failure

HasUnknownCall(i) ==
    \E k \in DOMAIN TurnCalls(i) : UnknownName(TurnCalls(i)[k])

\* C8 (as claimed): a call to an unknown tool resolves to a status=error
\* message, runs no capability and fails nothing, and once the results of
\* its turn are appended the loop goes on to the next turn.
C8_UnknownToolLoopContinues ==
    [][\A i \in Invocations :
          /\ UnknownCallIsolated(i)
          /\ (pc[i] = "tools" /\ pc'[i] \in {"loop", "done"} /\ HasUnknownCall(i))
                => pc'[i] = "loop"]_vars

\* C8 (amended): the same, except that the loop goes on to the next turn
\* unless the stop tool was called in the same turn, in which case it stops.
C8_UnknownToolLoopContinuesUnlessStop ==
    [][\A i \in Invocations :
          /\ UnknownCallIsolated(i)
          /\ (pc[i] = "tools" /\ pc'[i] \in {"loop", "done"} /\ HasUnknownCall(i))
                => pc'[i] = IF StopTurn(i) THEN "done" ELSE "loop"]_vars

\* a first turn called an unknown tool, its error result was appended, and
\* the model is streaming a second turn
C8_Witness ==
    \E i \in Invocations :
        /\ pc[i] = "streaming"
        /\ modelCalls[i] = 2
        /\ Len(sessionHistory[i]) = 2
        /\ sessionHistory[i][1].tool_calls = <<GhostName>>
        /\ sessionHistory[i][2].status = "error"
        /\ sessionHistory[i][2].content = NotFoundContent(GhostName)

\* ---------------------------------------------------------------- C9
\* C9 (as claimed): a call whose capability raised resolves to a message
\* with status=error whose content is {error: m} for an error object and
\* the raised value otherwise, and invoke does not fail because of it.
C9_RaisedErrorBecomesResult ==
    \A i \in Invocations :
        \A k \in DOMAIN promises[i] :
            promises[i][k].outcome \in
                {"throws_error", "throws_value", "throws_unserializable"}
            => /\ promises[i][k].state = "fulfilled"
               /\ promises[i][k].value[1].status = "error"
               /\ promises[i][k].outcome = "throws_error" =>
                     promises[i][k].value[1].content = "{\"error\":\"m\"}"
               /\ promises[i][k].outcome = "throws_value" =>
                     promises[i][k].value[1].content = "{\"code\":7}"
               /\ pc[i] # "failed"

\* ---------------------------------------------------------------- C10
\* C10 (as claimed): the only errors that leave invoke/stream are the
\* budget error and the tool-binding configuration error.
C10_OnlyFatalErrorsEscape ==
    \A i \in Invocations :
        failure[i] \in {"none", "Max tool calls reached",
                        "LLM does not support tool binding"}

\* ---------------------------------------------------------------- C11
\* C11 (as claimed): the step on which an invocation fails with 'LLM does
\* not support tool binding' comes before any turn: the invocation has made
\* no model call, and the step takes no unit from the turn budget.
C11_BindErrorConsumesNoBudget ==
    [][\A i \in Invocations :
          (failure[i] = "none" /\
           failure'[i] = "LLM does not support tool binding") =>
              /\ modelCalls'[i] = 0
              /\ _callsLeft' = _callsLeft]_vars

\* ---------------------------------------------------------------- C12
\* C12 (as claimed): an invocation that comes round the loop with fewer
\* than 1 unit of budget left fails with 'Max tool calls reached' and
\* calls no model, whatever the configured budget (0 and negative values
\* included).
C12_NoTurnBelowOneUnit ==
    [][\A i \in Invocations :
          (pc[i] = "loop" /\ _callsLeft < 1 /\ pc'[i] # "loop") =>
              /\ pc'[i] = "failed"
              /\ failure'[i] = "Max tool calls reached"
              /\ modelCalls' = modelCalls]_vars

\* ---------------------------------------------------------------- C13
\* the position of the AI message that opens the turn position p belongs to
RECURSIVE TurnStart(_, _)
TurnStart(msgs, p) ==
    IF p = 0 \/ msgs[p].type = "ai" THEN p ELSE TurnStart(msgs, p - 1)

\* the number of AI messages among the first p messages: the turn that
\* position p belongs to
RECURSIVE TurnOf(_, _)
TurnOf(msgs, p) ==
    IF p = 0 THEN 0
    ELSE TurnOf(msgs, p - 1) + (IF msgs[p].type = "ai" THEN 1 ELSE 0)

\* the turns an invocation has appended the AI message of
TurnsAppended(i) ==
    IF pc[i] = "streaming" THEN modelCalls[i] - 1 ELSE modelCalls[i]

\* C13: the session history is the AI message of turn 1, the tool-result
\* messages of turn 1, the AI message of turn 2, and so on: it holds one AI
\* message per turn taken, every tool-result message answers a call of the
\* last AI message before it, the results of one AI message stand in call
\* order with none missing before the next AI message, and the history only
\* grows at its end.
C13_AppendedInTurnOrder ==
    [][\A i \in Invocations :
          LET msgs == sessionHistory'[i]
          IN  /\ TurnOf(msgs, Len(msgs)) = TurnsAppended(i)'
              /\ \A p \in DOMAIN msgs :
                    /\ msgs[p].type \in {"ai", "tool"}
                    /\ msgs[p].type = "tool" =>
                          LET q == TurnStart(msgs, p)
                          IN  /\ q >= 1
                              /\ p - q <= Len(msgs[q].tool_calls)
                              /\ msgs[p].tool_call_id = p - q
                              /\ msgs[p].name = msgs[q].tool_calls[p - q]
                    /\ (msgs[p].type = "ai" /\ p > 1) =>
                          LET q == TurnStart(msgs, p - 1)
                          IN  (p - 1) - q = Len(msgs[q].tool_calls)
              /\ pc[i] # "idle" =>
                    /\ Len(msgs) >= Len(sessionHistory[i])
                    /\ \A p \in DOMAIN sessionHistory[i] :
                          msgs[p] = sessionHistory[i][p]]_vars

\* two turns of one invocation: an AI message with two calls, their two
\* results, and the AI message of the second turn
C13_Witness ==
    \E i \in Invocations :
        /\ Len(sessionHistory[i]) = 4
        /\ sessionHistory[i][1].type = "ai"
        /\ sessionHistory[i][2].type = "tool"
        /\ sessionHistory[i][3].type = "tool"
        /\ sessionHistory[i][4].type = "ai"

\* ---------------------------------------------------------------- C14
\* the number of messages of one type in a list
RECURSIVE CountType(_, _, _)
CountType(msgs, type, n) ==
    IF n = 0 THEN 0
    ELSE CountType(msgs, type, n - 1) + (IF msgs[n].type = type THEN 1 ELSE 0)

\* the number of tool calls the AI messages of a list carry, each of which
\* a completed turn has produced one tool-result message for
RECURSIVE CountCalls(_, _)
CountCalls(msgs, n) ==
    IF n = 0 THEN 0
    ELSE CountCalls(msgs, n - 1) +
         (IF msgs[n].type = "ai" THEN Len(msgs[n].tool_calls) ELSE 0)

\* C14: no step makes the session history shorter; after every completed
\* turn its length is the number of AI messages produced so far (one per
\* model call of this invocation) plus the number of tool-result messages
\* produced so far (one per tool call of those AI messages); and it never
\* holds the human input or a message of the caller's prior history: every
\* message it gains is the AI message the turn has just accumulated or a
\* message a tool call of the turn has resolved to.
C14_SessionHistoryLength ==
    [][\A i \in Invocations :
          LET msgs == sessionHistory'[i]
          IN  /\ Len(msgs) >= Len(sessionHistory[i])
              /\ pc'[i] \in {"loop", "done"} =>
                    /\ CountType(msgs, "ai", Len(msgs)) = modelCalls'[i]
                    /\ CountType(msgs, "tool", Len(msgs)) = CountCalls(msgs, Len(msgs))
                    /\ Len(msgs) = modelCalls'[i] + CountCalls(msgs, Len(msgs))
              /\ \A p \in DOMAIN msgs :
                    /\ msgs[p].type # "human"
                    /\ msgs[p] # PriorMessage
                    /\ p > Len(sessionHistory[i]) =>
                          \/ /\ pc[i] = "streaming"
                             /\ msgs[p] = AIMessage(agentResponse[i])
                          \/ /\ pc[i] = "tools"
                             /\ msgs[p] = promises[i][p - Len(sessionHistory[i])].value[1]]_vars

\* a store with a prior message is configured, and a turn with two tool
\* calls has been completed: one AI message and two results
C14_Witness ==
    \E i \in Invocations :
        /\ options.history
        /\ initialHistory[i] # <<>>
        /\ pc[i] = "loop"
        /\ modelCalls[i] = 1
        /\ Len(sessionHistory[i]) = 3

\* ---------------------------------------------------------------- C15
\* list a is a prefix of list b
IsPrefix(a, b) ==
    /\ Len(a) <= Len(b)
    /\ \A p \in DOMAIN a : a[p] = b[p]

\* a list without its last element
Front(s) == SubSeq(s, 1, Len(s) - 1)

\* C15: when the stream emits a snapshot after an earlier one, the earlier
\* snapshot without its in-progress AI message is a prefix of the new one,
\* and the new one is not shorter.  (response is the last snapshot emitted;
\* holding between consecutive snapshots, both facts hold between any
\* snapshot and any later one.)
C15_SnapshotsPrefixGrowing ==
    [][\A i \in Invocations :
          (response[i] # <<>> /\ response'[i] # response[i]) =>
              /\ IsPrefix(Front(response[i]), response'[i])
              /\ Len(response'[i]) >= Len(response[i])
              /\ Front(response'[i]) = sessionHistory[i]
              /\ response'[i][Len(response'[i])] = AIMessage(agentResponse'[i])]_vars

\* in its second turn, after a first turn with one tool call, the stream
\* has emitted a snapshot of three messages
C15_Witness ==
    \E i \in Invocations :
        /\ pc[i] = "streaming"
        /\ modelCalls[i] = 2
        /\ Len(response[i]) = 3
        /\ response[i][1].type = "ai"
        /\ response[i][2].type = "tool"
        /\ response[i][3].type = "ai"
        /\ response[i][3].text

\* ---------------------------------------------------------------- C16
\* C16 (as claimed): every invocation terminates, for every configured
\* budget and every behaviour of the model.  Fragment streams being finite
\* and tool calls completing, an invocation runs on only by starting a
\* further turn, and a model that calls a tool on every turn is stopped by
\* nothing but the budget.  So the claim is that the turns left bound the
\* turns to come: a turn is started only from a positive number of turns
\* left and leaves one fewer, so that the budget error is reached after
\* finitely many turns; and once an invocation has stopped or failed it
\* stays so and starts no model turn.
C16_EveryInvocationTerminates ==
    [][\A i \in Invocations :
          /\ modelCalls'[i] > modelCalls[i] =>
                /\ _callsLeft > 0
                /\ _callsLeft' = _callsLeft - 1
          /\ pc[i] \in {"done", "failed"} =>
                /\ pc'[i] = pc[i]
                /\ modelCalls'[i] = modelCalls[i]]_vars

\* ---------------------------------------------------------------- C17
\* C17 (as claimed): once a turn's messages are appended and the loop has
\* proceeded (to the stop check and the next turn, or to STOP), the stream
\* has emitted a snapshot that holds them: the last snapshot emitted holds
\* every message of the session history, the tool-result messages of the
\* turn included.
C17_SnapshotAfterAppend ==
    \A i \in Invocations :
        (pc[i] \in {"loop", "done"} /\ modelCalls[i] > 0) =>
            /\ Len(response[i]) >= Len(sessionHistory[i])
            /\ \A p \in DOMAIN sessionHistory[i] :
                  response[i][p] = sessionHistory[i][p]

\* ---------------------------------------------------------------- C18
\* C18 (as claimed): when the fragment stream of a turn has ended, the turn
\* dispatches tools (and the loop goes on) if and only if the completed AI
\* message carries at least one tool call; otherwise the message is the
\* final answer and the loop stops.
C18_DispatchOnCompletedMessage ==
    [][\A i \in Invocations :
          (pc[i] = "streaming" /\ pc'[i] # "streaming") =>
              LET completed == sessionHistory'[i][Len(sessionHistory'[i])]
              IN  /\ completed = AIMessage(agentResponse[i])
                  /\ pc'[i] = IF Len(completed.tool_calls) > 0
                              THEN "tools" ELSE "done"]_vars

\* ---------------------------------------------------------------- C19
\* C19 (as claimed): no snapshot is emitted whose in-progress AI message has
\* neither text content nor a tool call.
C19_NoEmptySnapshot ==
    \A i \in Invocations :
        response[i] # <<>> =>
            LET inProgress == response[i][Len(response[i])]
            IN  inProgress.text \/ Len(inProgress.tool_calls) > 0

\* ---------------------------------------------------------------- C20
\* C20: within a turn, once the accumulated AI message has been seen with a
\* tool call (isToolCall; also on the fragment that shows the first one),
\* every snapshot emitted has a non-empty tool_calls list, and a fragment
\* after which the accumulated tool_calls view is empty emits nothing.
C20_NoFlicker ==
    [][\A i \in Invocations :
          (/\ pc[i] = "streaming"
           /\ agentResponse'[i] # agentResponse[i] \/ response'[i] # response[i]
           /\ isToolCall[i] \/ Len(ToolCallsOf(agentResponse'[i])) > 0) =>
              /\ isToolCall'[i]
              /\ response'[i] # response[i] =>
                    Len(response'[i][Len(response'[i])].tool_calls) > 0
              /\ Len(ToolCallsOf(agentResponse'[i])) = 0 =>
                    response'[i] = response[i]]_vars

\* a tool call has been seen and emitted, and the accumulated tool_calls
\* view is now empty: the last snapshot still shows the tool call
C20_Witness ==
    \E i \in Invocations :
        /\ pc[i] = "streaming"
        /\ isToolCall[i]
        /\ ToolCallsOf(agentResponse[i]) = <<>>
        /\ response[i] # <<>>
        /\ response[i][Len(response[i])].tool_calls = <<EchoName>>

\* ---------------------------------------------------------------- C21
\* C21 (as claimed): one unit of budget is consumed per model turn and none
\* otherwise: at every point the turns left are the starting budget less
\* the number of model turns started (counted over the invocations of the
\* agent, whose counter it is), whether or not the turns had tool calls.
C21_OneUnitPerModelTurn ==
    _callsLeft = Budget - TotalModelCalls

\* ---------------------------------------------------------------- C22
\* invocation i takes the step
StepOf(i) ==
    \/ pc'[i] # pc[i]
    \/ promises'[i] # promises[i]
    \/ sessionHistory'[i] # sessionHistory[i]
    \/ modelCalls'[i] # modelCalls[i]

\* C22: while a tool call of the turn has not finished, no step of the
\* invocation adds a message to the session history or to the store, and
\* no model turn is started; the step that adds tool-result messages finds
\* every call of the turn finished and adds the results of all of them, as
\* one batch, to the session history and to the store.
C22_FanIn ==
    [][\A i \in Invocations :
          (pc[i] = "tools" /\ StepOf(i)) =>
              /\ (\E k \in DOMAIN promises[i] : promises[i][k].state # "fulfilled") =>
                    /\ sessionHistory'[i] = sessionHistory[i]
                    /\ history' = history
                    /\ modelCalls'[i] = modelCalls[i]
                    /\ pc'[i] \in {"tools", "failed"}
              /\ (sessionHistory'[i] # sessionHistory[i] \/ pc'[i] \in {"loop", "done"}) =>
                    LET batch == [k \in 1..Len(TurnCalls(i)) |-> promises[i][k].value[1]]
                    IN  /\ \A k \in DOMAIN TurnCalls(i) : promises[i][k].state = "fulfilled"
                        /\ sessionHistory'[i] = sessionHistory[i] \o batch
                        /\ options.history => history' = history \o batch]_vars

\* the second call of a turn has finished while the first has not: nothing
\* of the turn's results is in the session history
C22_Witness ==
    \E i \in Invocations :
        /\ pc[i] = "tools"
        /\ Len(promises[i]) = 2
        /\ promises[i][1].state = "pending"
        /\ promises[i][2].state = "fulfilled"
        /\ Len(sessionHistory[i]) = 1

\* ---------------------------------------------------------------- C23
\* C23: when the dispatch of a turn begins every call of the turn has been
\* started (it has a promise), and a call that has not finished can finish
\* whatever the state of its siblings: none waits for another.
C23_FanOut ==
    \A i \in Invocations :
        pc[i] = "tools" =>
            /\ Len(promises[i]) = Len(TurnCalls(i))
            /\ \A k \in DOMAIN promises[i] :
                  promises[i][k].state = "pending" =>
                      ENABLED (ToolRun(i, k, "returns", FALSE) \/ ToolNotFound(i, k))

\* of two calls to echo, the second has returned while the first is still
\* running
C23_Witness ==
    \E i \in Invocations :
        /\ pc[i] = "tools"
        /\ TurnCalls(i) = <<EchoName, EchoName>>
        /\ promises[i][1].state = "pending"
        /\ promises[i][2].state = "fulfilled"
        /\ promises[i][2].outcome = "returns"
        /\ completion[i] = <<2>>

\* ---------------------------------------------------------------- C24
\* C24 (as claimed): the prior history is what the store held when the
\* invocation started, read before the human input is added and not read
\* again; the context every model turn is given is that prior history,
\* then the human input, then the session history so far.
C24_ContextIsPriorHumanSession ==
    [][\A i \in Invocations :
          /\ (pc[i] = "idle" /\ pc'[i] # "idle") =>
                /\ initialHistory'[i] = history
                /\ options.history => history' = Append(history, HumanMessage(i))
          /\ pc[i] # "idle" => initialHistory'[i] = initialHistory[i]
          /\ modelCalls'[i] > modelCalls[i] =>
                messages'[i] = initialHistory[i] \o <<HumanMessage(i)>>
                                  \o sessionHistory[i]]_vars

\* ---------------------------------------------------------------- C25
\* C25: the tool-result messages a turn adds are as many as the tool calls
\* of the turn's AI message; each carries the id and the name of exactly
\* one of those calls, and no two of them carry the same call's id.
C25_ResultsOneToOne ==
    [][\A i \in Invocations :
          (pc[i] = "tools" /\ pc'[i] \in {"loop", "done"}) =>
              LET base == Len(sessionHistory[i])
                  n == Len(sessionHistory'[i]) - base
                  CallsAnswered(m) ==
                      {c \in DOMAIN TurnCalls(i) :
                          m.tool_call_id = c /\ m.name = TurnCalls(i)[c]}
              IN  /\ n = Len(TurnCalls(i))
                  /\ \A k \in 1..n :
                        /\ sessionHistory'[i][base + k].type = "tool"
                        /\ Cardinality(CallsAnswered(sessionHistory'[i][base + k])) = 1
                  /\ \A k1, k2 \in 1..n :
                        k1 # k2 =>
                            sessionHistory'[i][base + k1].tool_call_id #
                            sessionHistory'[i][base + k2].tool_call_id]_vars

\* a turn called echo and an unknown tool, and both results were added
C25_Witness ==
    \E i \in Invocations :
        /\ pc[i] = "loop"
        /\ TurnCalls(i) = <<EchoName, GhostName>>
        /\ Len(sessionHistory[i]) = 3
        /\ sessionHistory[i][2].name = EchoName
        /\ sessionHistory[i][3].name = GhostName

\* ---------------------------------------------------------------- C26
\* C26: a call whose arguments fail validation does not invoke the tool's
\* capability and resolves to a tool-result message with status=error and
\* content {error: message}: the message a call resolves to when its
\* capability raises an error, tracing attached or not.
C26_ValidationFailureIsError ==
    \A i \in Invocations :
        \A k \in DOMAIN promises[i] :
            promises[i][k].outcome = "invalid_args" =>
                /\ ~InvokesCapability(promises[i][k].outcome)
                /\ promises[i][k].state = "fulfilled"
                /\ promises[i][k].value[1].status = "error"
                /\ promises[i][k].value[1].content = "{\"error\":\"m\"}"
                /\ AnswersCall(promises[i][k].value[1], i, k)
                /\ \A traced \in BOOLEAN :
                      promises[i][k].value =
                          RunToolCall(k, TurnCalls(i)[k], "throws_error", traced).value

\* a call to echo failed validation and has resolved, in a turn whose
\* other call returned
C26_Witness ==
    \E i \in Invocations :
        /\ pc[i] = "tools"
        /\ TurnCalls(i) = <<EchoName, EchoName>>
        /\ promises[i][1].outcome = "invalid_args"
        /\ promises[i][1].state = "fulfilled"
        /\ promises[i][2].outcome = "returns"

\* ---------------------------------------------------------------- C27
\* C27 (as claimed): the content of the message a call to an unknown tool
\* resolves to is the serialization of {success: false, error: 'Tool "n"
\* was not found.'}, those two fields at the top level (n = ghost here, or
\* stop when no stop tool is configured).
C27_NotFoundContentTopLevel ==
    \A i \in Invocations :
        \A k \in DOMAIN promises[i] :
            promises[i][k].outcome = "not_found" =>
                promises[i][k].value[1].content =
                    IF TurnCalls(i)[k] = GhostName
                    THEN "{\"success\":false,\"error\":\"Tool \\\"ghost\\\" was not found.\"}"
                    ELSE "{\"success\":false,\"error\":\"Tool \\\"stop\\\" was not found.\"}"

SingleWriter(i) == \A j \in Invocations \ {i} : pc[j] = "idle"

\* C29 (as claimed): with a single writer and a store configured, when the
\* invocation ends normally the store holds what it held before the
\* invocation, then the human input, then the session history; and the
\* context every model turn is given is the content of the store at that
\* moment.
C29_StoreMirrorsInvocation ==
    [][\A i \in Invocations :
          (SingleWriter(i) /\ options.history) =>
              /\ (pc[i] # "done" /\ pc'[i] = "done") =>
                    history' = initialHistory[i] \o <<HumanMessage(i)>>
                                  \o sessionHistory'[i]
              /\ modelCalls'[i] > modelCalls[i] => messages'[i] = history]_vars

\* ---------------------------------------------------------------- C30
\* list a is a subsequence of list b
RECURSIVE IsSubsequence(_, _)
IsSubsequence(a, b) ==
    IF a = <<>> THEN TRUE
    ELSE IF b = <<>> THEN FALSE
    ELSE IF Head(a) = Head(b) THEN IsSubsequence(Tail(a), Tail(b))
    ELSE IsSubsequence(a, Tail(b))

\* C30: no step takes a message out of the store; the step on which an
\* invocation fails with the budget error or the tool-binding error leaves
\* the store as it was, holding the human input and then, in order, every
\* message of the turns the invocation completed.
C30_FailureKeepsStore ==
    [][/\ IsPrefix(history, history')
       /\ \A i \in Invocations :
             (/\ failure[i] = "none"
              /\ failure'[i] \in {"Max tool calls reached",
                                  "LLM does not support tool binding"}) =>
                 /\ history' = history
                 /\ options.history =>
                       IsSubsequence(<<HumanMessage(i)>> \o sessionHistory[i],
                                     history')]_vars

\* with a budget of one turn, an invocation completed a tool-call turn and
\* failed on the second: the store holds the prior message, the human
\* input, the AI message and the tool result
C30_Witness ==
    \E i \in Invocations :
        /\ options.history
        /\ failure[i] = "Max tool calls reached"
        /\ modelCalls[i] = 1
        /\ Len(sessionHistory[i]) = 2
        /\ Len(history) >= 4
        /\ history[2] = HumanMessage(i)
        /\ history[3] = sessionHistory[i][1]
        /\ history[4] = sessionHistory[i][2]

\* ---------------------------------------------------------------- C31
\* C31: when the results of a tool-call turn have been added, the loop
\* stops if and only if a stop tool is configured and one of the turn's
\* calls names it, whatever the status of the results: a stop tool whose
\* own call failed (status=error) stops the loop all the same, and without
\* a configured stop tool no call name stops it.
C31_StopByNameOnly ==
    [][\A i \in Invocations :
          (pc[i] = "tools" /\ pc'[i] \in {"loop", "done"}) =>
              /\ pc'[i] = "done" <=>
                    /\ options.tool_response
                    /\ \E k \in DOMAIN TurnCalls(i) : TurnCalls(i)[k] = StopName
              /\ ~options.tool_response => pc'[i] = "loop"]_vars

\* the stop tool was called, its arguments failed validation or it raised,
\* and the loop has stopped after its status=error result
C31_Witness ==
    \E i \in Invocations :
        /\ pc[i] = "done"
        /\ options.tool_response
        /\ TurnCalls(i) = <<StopName>>
        /\ Len(sessionHistory[i]) = 2
        /\ sessionHistory[i][2].name = StopName
        /\ sessionHistory[i][2].status = "error"
        /\ sessionHistory[i][2].content = "{\"error\":\"m\"}"

\* ======================================================================
\* The other programs of the repository.  While one of them runs, no
\* RunnableAgent is invoked: the agent's variables keep these values.
AgentIdle ==
    /\ options = [maxToolCalls |-> <<>>, tool_response |-> FALSE,
                  bindTools |-> TRUE, history |-> FALSE]
    /\ _callsLeft = DefaultMaxToolCalls
    /\ history = <<>>
    /\ pc = [i \in Invocations |-> "idle"]
    /\ failure = [i \in Invocations |-> "none"]
    /\ initialHistory = [i \in Invocations |-> <<>>]
    /\ sessionHistory = [i \in Invocations |-> <<>>]
    /\ agentResponse = [i \in Invocations |-> EmptyChunk]
    /\ isToolCall = [i \in Invocations |-> FALSE]
    /\ streamed = [i \in Invocations |-> FALSE]
    /\ promises = [i \in Invocations |-> <<>>]
    /\ completion = [i \in Invocations |-> <<>>]
    /\ response = [i \in Invocations |-> <<>>]
    /\ modelCalls = [i \in Invocations |-> 0]
    /\ toolCallsIssued = 0
    /\ liveMessages = FALSE
    /\ messages = [i \in Invocations |-> <<>>]

\* ======================================================================
\* streamToRxjs (langchain/src/runnable-history.ts, lines 121-134)
\*
\* One IterableReadableStream is wrapped into one Observable.  Every
\* subscribe() runs the constructor callback again: a new async producer
\* iterating the SAME stream.  The stream is read once: its iterator is the
\* stream itself and all iterations share its reader, so a chunk read by one
\* producer is read by no other.  What a read made after the stream's end
\* was read gives is the library's choice (done again, or a rejection).

\* the streams the adapter is given, up to MaxChunks chunks
Streams ==
    [chunks : UNION {[1..n -> ChunkValues] : n \in 0..MaxChunks},
     fails : BOOLEAN]

\* the calls a producer makes on its subscriber
NextNotification(chunk) == [kind |-> "next", chunk |-> chunk]
CompleteNotification == [kind |-> "complete", chunk |-> 0]
ErrorNotification == [kind |-> "error", chunk |-> 0]

RxInit ==
    /\ stream \in Streams
    /\ taken = 0
    /\ streamOver = FALSE
    /\ producer = [s \in Subscribers |-> "cold"]
    /\ notified = [s \in Subscribers |-> <<>>]
    /\ AgentIdle /\ ExperimentIdle /\ LangfuseIdle /\ TransformerIdle /\ ConsoleIdle

\* observable.subscribe(): the callback of `new Observable` starts the
\* async function, which begins to iterate the stream
RxSubscribe(s) ==
    /\ producer[s] = "cold"
    /\ producer' = [producer EXCEPT ![s] = "iterating"]
    /\ UNCHANGED <<agentVars, experimentVars, langfuseVars, transformerVars, consoleVars,
                   stream, taken, streamOver, notified>>

\* one pass of `for await (const chunk of stream)`: subscriber.next(chunk)
RxNext(s) ==
    /\ producer[s] = "iterating"
    /\ ~streamOver
    /\ taken < Len(stream.chunks)
    /\ taken' = taken + 1
    /\ notified' = [notified EXCEPT
                      ![s] = Append(@, NextNotification(stream.chunks[taken + 1]))]
    /\ UNCHANGED <<agentVars, experimentVars, langfuseVars, transformerVars, consoleVars,
                   stream, streamOver, producer>>

\* the iteration ends: subscriber.complete()
RxComplete(s) ==
    /\ producer[s] = "iterating"
    /\ ~streamOver
    /\ taken = Len(stream.chunks)
    /\ ~stream.fails
    /\ streamOver' = TRUE
    /\ producer' = [producer EXCEPT ![s] = "closed"]
    /\ notified' = [notified EXCEPT ![s] = Append(@, CompleteNotification)]
    /\ UNCHANGED <<agentVars, experimentVars, langfuseVars, transformerVars, consoleVars,
                   stream, taken>>

\* (mutant) the failure of the iteration is reported as its end
RxErrorAsComplete(s) ==
    /\ producer[s] = "iterating"
    /\ ~streamOver
    /\ taken = Len(stream.chunks)
    /\ stream.fails
    /\ streamOver' = TRUE
    /\ producer' = [producer EXCEPT ![s] = "closed"]
    /\ notified' = [notified EXCEPT ![s] = Append(@, CompleteNotification)]
    /\ UNCHANGED <<agentVars, experimentVars, langfuseVars, transformerVars, consoleVars,
                   stream, taken>>

\* the iteration throws: catch (error) { subscriber.error(error) }
RxError(s) ==
    /\ producer[s] = "iterating"
    /\ ~streamOver
    /\ taken = Len(stream.chunks)
    /\ stream.fails
    /\ streamOver' = TRUE
    /\ producer' = [producer EXCEPT ![s] = "closed"]
    /\ notified' = [notified EXCEPT ![s] = Append(@, ErrorNotification)]
    /\ UNCHANGED <<agentVars, experimentVars, langfuseVars, transformerVars, consoleVars,
                   stream, taken>>

\* a producer reads the stream after another producer read its end: the
\* read reports the end again (complete) or rejects (error)
RxReadAfterEnd(s, rejects) ==
    /\ producer[s] = "iterating"
    /\ streamOver
    /\ producer' = [producer EXCEPT ![s] = "closed"]
    /\ notified' = [notified EXCEPT
                      ![s] = Append(@, IF rejects THEN ErrorNotification
                                                  ELSE CompleteNotification)]
    /\ UNCHANGED <<agentVars, experimentVars, langfuseVars, transformerVars, consoleVars,
                   stream, taken, streamOver>>

RxStep ==
    \E s \in Subscribers :
        \/ RxSubscribe(s)
        \/ RxNext(s)
        \/ RxComplete(s)
        \/ RxError(s)
        \/ \E rejects \in BOOLEAN : RxReadAfterEnd(s, rejects)

RxSpec == RxInit /\ [][RxStep]_vars

\* ---- vocabulary of the claim
\* the next notifications of a list of chunks
RECURSIVE NextNotifications(_)
NextNotifications(chunks) ==
    IF chunks = <<>> THEN <<>>
    ELSE <<NextNotification(Head(chunks))>> \o NextNotifications(Tail(chunks))

\* the terminal notification the stream's own end calls for
Terminal == IF stream.fails THEN ErrorNotification ELSE CompleteNotification

IsTerminal(n) == n.kind \in {"complete", "error"}

\* no notification follows a terminal one, so there is at most one
TerminalOnlyLast(s) ==
    \A k \in 1..Len(notified[s]) :
        IsTerminal(notified[s][k]) => k = Len(notified[s])

\* s is the only subscription made on the observable
OnlySubscription(s) == \A t \in Subscribers \ {s} : producer[t] = "cold"

\* (C32) Every subscriber of the observable receives every chunk of the
\* source stream in source order and then exactly one terminal notification:
\* complete if the stream ended, error if it failed; never both, and no
\* chunk after the terminal notification.
C32_EveryChunkThenOneTerminal ==
    \A s \in Subscribers :
        /\ TerminalOnlyLast(s)
        /\ producer[s] = "closed" =>
             notified[s] = NextNotifications(stream.chunks) \o <<Terminal>>

\* (C32, amended) A subscriber receives chunks of the source stream in
\* source order and then, when its producer is done, exactly one terminal
\* notification, with nothing after it.  Over all subscribers each chunk of
\* the stream is delivered once.  The only subscriber of the observable
\* receives every chunk, then complete if the stream ended and error if it
\* failed.
C32_OnlySubscriberEveryChunkThenOneTerminal ==
    /\ \A s \in Subscribers :
        /\ TerminalOnlyLast(s)
        /\ producer[s] = "closed" <=>
             (notified[s] # <<>> /\ IsTerminal(notified[s][Len(notified[s])]))
        /\ IsSubsequence(SelectSeq(notified[s], LAMBDA n : ~IsTerminal(n)),
                         NextNotifications(stream.chunks))
        /\ (producer[s] = "closed" /\ OnlySubscription(s)) =>
             notified[s] = NextNotifications(stream.chunks) \o <<Terminal>>
    /\ SumTo([s \in Subscribers |->
                Len(SelectSeq(notified[s], LAMBDA n : ~IsTerminal(n)))],
             NumSubscribers) = taken

\* the only subscriber of a failing stream of two chunks or more was sent
\* everything
C32_Witness ==
    \E s \in Subscribers :
        /\ OnlySubscription(s)
        /\ producer[s] = "closed"
        /\ stream.fails
        /\ Len(stream.chunks) >= 2
        /\ Len(notified[s]) = Len(stream.chunks) + 1

\* ======================================================================
\* RunCommand.executeExperiment (ai-testing/src/commands/run.ts, lines
\* 93-218)
\*
\* The state starts after `new Sema(dataset.length)` (line 108): the
\* dataset is loaded and not empty, the progress bar is started.  The
\* runnable and the evaluators are the environment: whether an invocation
\* fails and whether an evaluator throws is chosen when it settles.  Sema
\* is the async-sema semaphore: acquire() takes a free permit or queues the
\* caller, release() hands the permit to the first queued caller or frees it.

TestCase(idx) == <<idx, 0>>
EvaluatorTask(idx, e) == <<idx, e>>

\* where a task stands once its acquire() has resolved
Acquired(t) == IF t[2] = 0 THEN "invoking" ELSE "running"

\* `await sema.acquire()` by task t, on the record st of sema, holders, task
Acquire(st, t) ==
    IF st.sema.free > 0
    THEN [sema |-> [st.sema EXCEPT !.free = @ - 1],
          holders |-> st.holders \cup {t},
          task |-> [st.task EXCEPT ![t] = Acquired(t)]]
    ELSE [sema |-> [st.sema EXCEPT !.waiting = Append(@, t)],
          holders |-> st.holders,
          task |-> [st.task EXCEPT ![t] = "waiting"]]

\* `sema.release()` by task t
Release(st, t) ==
    IF st.sema.waiting # <<>>
    THEN LET next == Head(st.sema.waiting)
         IN  [sema |-> [st.sema EXCEPT !.waiting = Tail(@)],
              holders |-> (st.holders \ {t}) \cup {next},
              task |-> [st.task EXCEPT ![next] = Acquired(next)]]
    ELSE [sema |-> [st.sema EXCEPT !.free = @ + 1],
          holders |-> st.holders \ {t},
          task |-> st.task]

\* module.evaluators.map(async (fn) => { await sema.acquire(); ... }): the
\* callbacks are called in array order and each runs up to its acquire()
RECURSIVE AcquireEvaluators(_, _, _)
AcquireEvaluators(st, idx, e) ==
    IF e > module.evalLen THEN st
    ELSE AcquireEvaluators(Acquire(st, EvaluatorTask(idx, e)), idx, e + 1)

Held == [sema |-> sema, holders |-> holders, task |-> task]

ExperimentInit ==
    /\ module \in [dataLen : 1..MaxDataLen, evalLen : 0..MaxEvalLen]
    /\ sema = [free |-> module.dataLen, waiting |-> <<>>]
    /\ holders = {}
    /\ task = [t \in Tasks |->
                 IF t[1] > module.dataLen \/ t[2] > module.evalLen THEN "absent"
                 ELSE IF t[2] = 0 THEN "start" ELSE "idle"]
    /\ progress = 0
    /\ runResult = [idx \in Examples |-> "none"]
    /\ evalResult = [t \in Tasks |-> "none"]
    /\ testResultsMatrix = [idx \in Examples |-> <<>>]
    /\ finished = FALSE
    /\ AgentIdle /\ RxIdle /\ LangfuseIdle /\ TransformerIdle /\ ConsoleIdle

\* line 114: the test case of example idx asks for a permit
TestCaseAcquire(idx) ==
    /\ task[TestCase(idx)] = "start"
    /\ LET st == Acquire(Held, TestCase(idx))
       IN  /\ sema' = st.sema
           /\ holders' = st.holders
           /\ task' = st.task
    /\ UNCHANGED <<agentVars, rxVars, langfuseVars, transformerVars, consoleVars,
                   module, progress, runResult, evalResult, testResultsMatrix,
                   finished>>

\* (mutant) the permit is released in the try block, not in finally
RunnableSettlesReleaseOnSuccess(idx, ok) ==
    /\ task[TestCase(idx)] = "invoking"
    /\ runResult' = [runResult EXCEPT ![idx] = IF ok THEN "ok" ELSE "failed"]
    /\ LET st == IF ok THEN Release(Held, TestCase(idx)) ELSE Held
       IN  /\ sema' = st.sema
           /\ holders' = st.holders
           /\ task' = [st.task EXCEPT
                         ![TestCase(idx)] = IF ok THEN "tracing" ELSE "done"]
    /\ progress' = progress + 1
    /\ testResultsMatrix' = [testResultsMatrix EXCEPT ![idx] = <<>>]
    /\ UNCHANGED <<agentVars, rxVars, langfuseVars, transformerVars, consoleVars,
                   module, evalResult, finished>>

\* lines 116-131: runnable.invoke settles.  finally: release and increment,
\* on both ways out; a failure returns [] for the example
RunnableSettles(idx, ok) ==
    /\ task[TestCase(idx)] = "invoking"
    /\ runResult' = [runResult EXCEPT ![idx] = IF ok THEN "ok" ELSE "failed"]
    /\ LET st == Release(Held, TestCase(idx))
       IN  /\ sema' = st.sema
           /\ holders' = st.holders
           /\ task' = [st.task EXCEPT
                         ![TestCase(idx)] = IF ok THEN "tracing" ELSE "done"]
    /\ progress' = progress + 1
    /\ testResultsMatrix' = [testResultsMatrix EXCEPT ![idx] = <<>>]
    /\ UNCHANGED <<agentVars, rxVars, langfuseVars, transformerVars, consoleVars,
                   module, evalResult, finished>>

\* lines 135-140: the 'Evaluators' trace calls its function, which maps the
\* evaluators; the test case then awaits Promise.all of them
EvaluatorsStart(idx) ==
    /\ task[TestCase(idx)] = "tracing"
    /\ LET st == AcquireEvaluators(Held, idx, 1)
       IN  /\ sema' = st.sema
           /\ holders' = st.holders
           /\ task' = [st.task EXCEPT ![TestCase(idx)] = "evaluating"]
    /\ UNCHANGED <<agentVars, rxVars, langfuseVars, transformerVars, consoleVars,
                   module, progress, runResult, evalResult, testResultsMatrix,
                   finished>>

\* lines 141-173: evaluator e on example idx returns its result, or throws
\* and the catch logs the error (the callback resolves to undefined).
\* finally: release and increment
EvaluatorSettles(idx, e, threw) ==
    /\ e # 0
    /\ task[EvaluatorTask(idx, e)] = "running"
    /\ evalResult' = [evalResult EXCEPT
                        ![EvaluatorTask(idx, e)] = IF threw THEN "threw" ELSE "result"]
    /\ LET st == Release(Held, EvaluatorTask(idx, e))
       IN  /\ sema' = st.sema
           /\ holders' = st.holders
           /\ task' = [st.task EXCEPT ![EvaluatorTask(idx, e)] = "done"]
    /\ progress' = progress + 1
    /\ UNCHANGED <<agentVars, rxVars, langfuseVars, transformerVars, consoleVars,
                   module, runResult, testResultsMatrix, finished>>

\* testResults.filter(isDefined) over the evaluators from e on: the
\* evaluators whose callback resolved to a result, in array order
RECURSIVE DefinedResults(_, _)
DefinedResults(idx, e) ==
    IF e > module.evalLen THEN <<>>
    ELSE (IF evalResult[EvaluatorTask(idx, e)] = "result"
          THEN <<EvaluatorTask(idx, e)>> ELSE <<>>)
         \o DefinedResults(idx, e + 1)

EvaluatorsDone(idx) ==
    \A e \in 1..module.evalLen : task[EvaluatorTask(idx, e)] = "done"

\* (mutant) an evaluator that threw rejects Promise.all: the example
\* returns []
TestCaseReturnsAllOrNothing(idx) ==
    /\ task[TestCase(idx)] = "evaluating"
    /\ EvaluatorsDone(idx)
    /\ testResultsMatrix' =
         [testResultsMatrix EXCEPT
            ![idx] = IF \E e \in 1..module.evalLen :
                            evalResult[EvaluatorTask(idx, e)] = "threw"
                     THEN <<>> ELSE DefinedResults(idx, 1)]
    /\ task' = [task EXCEPT ![TestCase(idx)] = "done"]
    /\ UNCHANGED <<agentVars, rxVars, langfuseVars, transformerVars, consoleVars,
                   module, sema, holders, progress, runResult, evalResult, finished>>

\* lines 137, 187: Promise.all of the evaluators resolves, the test case
\* returns the defined results
TestCaseReturns(idx) ==
    /\ task[TestCase(idx)] = "evaluating"
    /\ EvaluatorsDone(idx)
    /\ testResultsMatrix' = [testResultsMatrix EXCEPT ![idx] = DefinedResults(idx, 1)]
    /\ task' = [task EXCEPT ![TestCase(idx)] = "done"]
    /\ UNCHANGED <<agentVars, rxVars, langfuseVars, transformerVars, consoleVars,
                   module, sema, holders, progress, runResult, evalResult, finished>>

\* lines 109, 200-218: Promise.all over the dataset resolves; the totals are
\* computed, the bar is stopped
ExperimentEnds ==
    /\ ~finished
    /\ \A idx \in 1..module.dataLen : task[TestCase(idx)] = "done"
    /\ finished' = TRUE
    /\ UNCHANGED <<agentVars, rxVars, langfuseVars, transformerVars, consoleVars,
                   module, sema, holders, task, progress, runResult, evalResult,
                   testResultsMatrix>>

ExperimentStep ==
    \/ \E idx \in Examples :
          \/ TestCaseAcquire(idx)
          \/ \E ok \in BOOLEAN : RunnableSettles(idx, ok)
          \/ EvaluatorsStart(idx)
          \/ \E e \in Evaluators, threw \in BOOLEAN : EvaluatorSettles(idx, e, threw)
          \/ TestCaseReturns(idx)
    \/ ExperimentEnds

ExperimentSpec == ExperimentInit /\ [][ExperimentStep]_vars

\* testResultsMatrix.flat() over the examples from idx on
RECURSIVE TestResults(_)
TestResults(idx) ==
    IF idx > module.dataLen THEN <<>>
    ELSE testResultsMatrix[idx] \o TestResults(idx + 1)

\* ---- claims

\* (C33) Every permit a test-case run or an evaluator acquires is released,
\* on success and on failure: the permits are conserved, a task that holds
\* one is running its runnable or its evaluator (it waits neither for a
\* permit nor for another task), a queued task holds none, the experiment
\* can always take a step until it has ended (no deadlock), and at the end
\* every permit is free.
C33_PermitsReleased ==
    /\ sema.free >= 0
    /\ sema.free + Cardinality(holders) = module.dataLen
    /\ \A t \in holders : task[t] \in {"invoking", "running"}
    /\ \A k \in 1..Len(sema.waiting) :
          /\ task[sema.waiting[k]] = "waiting"
          /\ sema.waiting[k] \notin holders
    /\ ~finished => ENABLED ExperimentStep
    /\ finished => (holders = {} /\ sema.waiting = <<>> /\ sema.free = module.dataLen)

\* an evaluator threw and released; tasks hold permits and another waits
C33_Witness ==
    /\ sema.waiting # <<>>
    /\ holders # {}
    /\ \E t \in Tasks : evalResult[t] = "threw"

\* (C34) When the experiment has ended the progress bar was incremented
\* exactly dataLen + dataLen * evalLen times, whichever runnable
\* invocations and evaluators failed.
C34_ProgressReachesTotal ==
    finished => progress = module.dataLen + module.dataLen * module.evalLen

\* (C35) Failures are isolated per example and per evaluator.  At the end
\* every example's runnable was invoked; an example whose invocation failed
\* contributes no results; for every other example every evaluator was run,
\* and the example contributes, in evaluator order, the result of each
\* evaluator that did not throw and nothing for one that threw.  The totals
\* are computed from exactly these results.
C35_FailuresIsolated ==
    finished =>
        /\ \A idx \in 1..module.dataLen :
              /\ runResult[idx] # "none"
              /\ runResult[idx] = "failed" => testResultsMatrix[idx] = <<>>
              /\ runResult[idx] = "ok" =>
                    /\ \A e \in 1..module.evalLen :
                          evalResult[EvaluatorTask(idx, e)] # "none"
                    /\ testResultsMatrix[idx] = DefinedResults(idx, 1)
        /\ \A t \in Tasks :
              (\E k \in 1..Len(TestResults(1)) : TestResults(1)[k] = t)
                 <=> (t[1] <= module.dataLen /\ runResult[t[1]] = "ok"
                      /\ evalResult[t] = "result")

\* one example's invocation failed; on the other one evaluator threw and
\* the other evaluator's result is in the totals
C35_Witness ==
    /\ finished
    /\ \E idx \in Examples : runResult[idx] = "failed"
    /\ \E idx \in Examples, e1, e2 \in Evaluators :
          /\ evalResult[EvaluatorTask(idx, e1)] = "threw"
          /\ evalResult[EvaluatorTask(idx, e2)] = "result"
          /\ testResultsMatrix[idx] = <<EvaluatorTask(idx, e2)>>
          /\ TestResults(1) = <<EvaluatorTask(idx, e2)>>

\* ======================================================================
\* LangfuseCallbackHandler (langfuse/src/langfuse.utils.ts, lines 135-596)
\*
\* LangChain, the environment, tells the handler about the runs of one run
\* tree: a start event per run (after its parent's), then one end or error
\* event (after those of its children).  All start handlers share
\* shouldTrace / registerObservation, all end handlers getObservation and
\* observation.end(); the observation a run registers is named after it.

\* the observation passed as options.parent to the handler
ExternalParent == NumRuns + 1

\* run trees: the parent of a run (0: none) started before it; a run is
\* named 'Runnable...' or otherwise
RunTrees ==
    {t \in [Runs -> [parent : 0..NumRuns, name : {"Chain", "Runnable"}]] :
        \A r \in Runs : t[r].parent < r}

LangfuseInit ==
    /\ runs \in RunTrees
    /\ runState = [r \in Runs |-> "new"]
    /\ root \in {0, ExternalParent}
    /\ observationMap = [r \in Runs |-> NoEntry]
    /\ observationEnds = [r \in Runs |-> <<>>]
    /\ AgentIdle /\ RxIdle /\ ExperimentIdle /\ TransformerIdle /\ ConsoleIdle

\* shouldTrace(runName, runId, parentRunId), lines 570-577: its result
ShouldTrace(r) ==
    IF runs[r].parent = 0 THEN TRUE
    ELSE runs[r].name # "Runnable"

\* getObservation(runId), lines 502-514: 0 is undefined
RECURSIVE GetObservation(_)
GetObservation(r) ==
    LET item == observationMap[r]
    IN  IF item.kind = "parent" THEN GetObservation(item.id)
        ELSE IF item.kind = "observation" THEN item.id
        ELSE 0

\* observation.end(), called while handling `event` of run r
End(o, r, event) ==
    IF o = 0 THEN observationEnds
    ELSE [observationEnds EXCEPT ![o] = Append(@, [run |-> r, event |-> event])]

\* handleChainStart and the other start handlers, lines 197-423
HandleStart(r) ==
    /\ runState[r] = "new"
    /\ runs[r].parent # 0 => runState[runs[r].parent] = "started"
    /\ runState' = [runState EXCEPT ![r] = "started"]
    /\ IF ShouldTrace(r)
       THEN /\ root' = IF root # 0 THEN root ELSE r
            /\ observationMap' = [observationMap EXCEPT ![r] = ObservationOf(r)]
       ELSE /\ observationMap' =
                 [observationMap EXCEPT ![r] = ParentRunId(runs[r].parent)]
            /\ UNCHANGED root
    /\ UNCHANGED <<agentVars, rxVars, experimentVars, transformerVars, consoleVars,
                   runs, observationEnds>>

\* the children of run r have all ended
ChildrenOver(r) ==
    \A c \in Runs : runs[c].parent = r => runState[c] # "started"

\* handleChainEnd and the other end handlers -> handleEnd, lines 516-523
\* (handleLLMEnd, lines 433-488, ends the observation the same way)
HandleEnd(r) ==
    /\ runState[r] = "started"
    /\ ChildrenOver(r)
    /\ runState' = [runState EXCEPT ![r] = "ended"]
    /\ observationEnds' = End(GetObservation(r), r, "end")
    /\ UNCHANGED <<agentVars, rxVars, experimentVars, transformerVars, consoleVars,
                   runs, root, observationMap>>

\* handleChainError and the other error handlers -> handleError, lines 525-535
HandleError(r) ==
    /\ runState[r] = "started"
    /\ ChildrenOver(r)
    /\ runState' = [runState EXCEPT ![r] = "failed"]
    /\ observationEnds' = End(GetObservation(r), r, "error")
    /\ UNCHANGED <<agentVars, rxVars, experimentVars, transformerVars, consoleVars,
                   runs, root, observationMap>>

LangfuseStep ==
    \E r \in Runs :
        \/ HandleStart(r)
        \/ HandleEnd(r)
        \/ HandleError(r)

LangfuseSpec == LangfuseInit /\ [][LangfuseStep]_vars

\* ---- claims

\* (C36) An observation is ended only by the end or error event of the run
\* that registered it, and at most once: the end event of an untraced child
\* run (named 'Runnable...', aliased to its parent's run id) does not end
\* the parent's observation.
C36_EndedByOwnRunOnce ==
    \A o \in Runs :
        /\ Len(observationEnds[o]) <= 1
        /\ \A k \in 1..Len(observationEnds[o]) : observationEnds[o][k].run = o

\* ======================================================================
\* circularTransformer (langfuse/src/langfuse.interceptor.ts, lines 153-210)
\*
\* The input is a graph of arrays and plain objects; object 1 is the
\* argument `data`, the items of an object are references to objects
\* (sharing and cycles included).  Items that are primitives or undefined
\* are returned as they are and are left out.  The transformers are the
\* environment: data.matches are the plain objects some transformer returns
\* a result for, data.async tells whether a transformer's result is a
\* Promise, as that of an async function is.
\*
\* transform is an async function: a call runs without interruption up to
\* its first await, so the calls that map() makes on the items of one object
\* each run, in item order, up to theirs.

ObjectGraphs ==
    {g \in [kind : [Objects -> {"array", "object"}],
            items : [Objects -> UNION {[1..n -> Objects] : n \in 0..MaxItems}],
            async : BOOLEAN,
            matches : SUBSET Objects] :
        \A o \in g.matches : g.kind[o] = "object"}

TransformerInit ==
    /\ data \in ObjectGraphs
    /\ visited = {}
    /\ transformCalls = [p \in Paths |-> "none"]
    /\ expansions = [o \in Objects |-> 0]
    /\ AgentIdle /\ RxIdle /\ ExperimentIdle /\ LangfuseIdle /\ ConsoleIdle

\* the argument of the call of transform named by path
RECURSIVE Target(_)
Target(path) ==
    IF path = <<>> THEN 1
    ELSE data.items[Target(Front(path))][path[Len(path)]]

\* how a call that has returned ended: undefined for a visited argument,
\* a transformer's result, or the mapped items / entries
Results == {"undefined", "transformed", "expanded"}

Transforming == [visited |-> visited, calls |-> transformCalls, expansions |-> expansions]

RECURSIVE Enter(_, _), AfterTransformers(_, _), Expand(_, _), EnterItems(_, _, _)

\* lines 164-184: a call of transform up to its first await
Enter(st, path) ==
    IF Target(path) \in st.visited
    THEN [st EXCEPT !.calls[path] = "undefined"]
    ELSE IF data.kind[Target(path)] = "array" THEN Expand(st, path)
    ELSE IF data.async THEN [st EXCEPT !.calls[path] = "awaiting"]
    ELSE AfterTransformers(st, path)

\* lines 186-203: a transformer's result is recorded and returned;
\* without one, the object's entries are transformed
AfterTransformers(st, path) ==
    IF Target(path) \in data.matches
    THEN [st EXCEPT !.visited = @ \cup {Target(path)},
                    !.calls[path] = "transformed"]
    ELSE Expand(st, path)

\* lines 172-173, 197-199: the object is put in visited, then map() calls
\* transform on each item
Expand(st, path) ==
    EnterItems([st EXCEPT !.visited = @ \cup {Target(path)},
                          !.calls[path] = "expanding",
                          !.expansions[Target(path)] = @ + 1],
               path, 1)

EnterItems(st, path, k) ==
    IF k > Len(data.items[Target(path)]) THEN st
    ELSE EnterItems(Enter(st, Append(path, k)), path, k + 1)

\* line 209: transform(data)
Transform ==
    /\ transformCalls[<<>>] = "none"
    /\ LET st == Enter(Transforming, <<>>)
       IN  /\ visited' = st.visited
           /\ transformCalls' = st.calls
           /\ expansions' = st.expansions
    /\ UNCHANGED <<agentVars, rxVars, experimentVars, langfuseVars, consoleVars, data>>

\* line 183: `result = await result` resumes
TransformersSettle(path) ==
    /\ transformCalls[path] = "awaiting"
    /\ LET st == AfterTransformers(Transforming, path)
       IN  /\ visited' = st.visited
           /\ transformCalls' = st.calls
           /\ expansions' = st.expansions
    /\ UNCHANGED <<agentVars, rxVars, experimentVars, langfuseVars, consoleVars, data>>

\* lines 173-175, 199-202: Promise.all of the items resolves, the call
\* returns the mapped object
ItemsSettle(path) ==
    /\ transformCalls[path] = "expanding"
    /\ \A k \in 1..Len(data.items[Target(path)]) :
          transformCalls[Append(path, k)] \in Results
    /\ transformCalls' = [transformCalls EXCEPT ![path] = "expanded"]
    /\ UNCHANGED <<agentVars, rxVars, experimentVars, langfuseVars, consoleVars,
                   data, visited, expansions>>

TransformerStep ==
    \/ Transform
    \/ \E path \in Paths : TransformersSettle(path)
    \/ \E path \in Paths : ItemsSettle(path)

TransformerSpec == TransformerInit /\ [][TransformerStep]_vars

\* the calls of transform made on object o
CallsOn(o) == {p \in Paths : transformCalls[p] # "none" /\ Target(p) = o}

\* ---- claims

\* (C37) circularTransformer terminates on every input, cyclic ones
\* included: until transform(data) has returned a step can be taken, and no
\* object is expanded more than once.  A reference to an object already
\* visited is replaced by undefined: once transform(data) has returned, at
\* most one of the calls made on an object returned something else.
C37_ExpandedOnceVisitedUndefined ==
    /\ \A o \in Objects : expansions[o] <= 1
    /\ transformCalls[<<>>] \notin Results => ENABLED TransformerStep
    /\ transformCalls[<<>>] \in Results =>
          \A o \in Objects :
             Cardinality({p \in CallsOn(o) : transformCalls[p] # "undefined"}) <= 1

\* ======================================================================
\* proxyConsole / restoreConsole (ai-testing/src/modules/console-proxy.ts,
\* lines 1-35)
\*
\* The callers are the environment: they call proxyConsole(), console
\* methods and restoreConsole().  A cycle is a proxyConsole() call up to
\* the restoreConsole() call that follows it.  A console call is recorded
\* in consoleCalls with its number and the cycle it was made in (0 outside
\* a cycle); printed lists the calls that reached the original console.

Methods == {"log", "warn", "error"}

ConsoleInit ==
    /\ proxied = FALSE
    /\ logs = <<>>
    /\ printed = <<>>
    /\ consoleCalls = <<>>
    /\ cycle = 0
    /\ AgentIdle /\ RxIdle /\ ExperimentIdle /\ LangfuseIdle /\ TransformerIdle

\* proxyConsole(), lines 9-25: console becomes the Proxy
ProxyConsole ==
    /\ ~proxied
    /\ cycle < MaxCycles
    /\ proxied' = TRUE
    /\ cycle' = cycle + 1
    /\ UNCHANGED <<agentVars, rxVars, experimentVars, langfuseVars, transformerVars,
                   logs, printed, consoleCalls>>

\* console[method](...): the Proxy's get trap, lines 11-23, hands out the
\* original console.error and, for any other method, a function that
\* pushes the call on logs; without the Proxy the original method runs
ConsoleCall(method) ==
    /\ Len(consoleCalls) < MaxConsoleCalls
    /\ LET call == [id |-> Len(consoleCalls) + 1, method |-> method,
                    cycle |-> IF proxied THEN cycle ELSE 0]
       IN  /\ consoleCalls' = Append(consoleCalls, call)
           /\ IF proxied /\ method # "error"
              THEN /\ logs' = Append(logs, call)
                   /\ UNCHANGED printed
              ELSE /\ printed' = Append(printed, call)
                   /\ UNCHANGED logs
    /\ UNCHANGED <<agentVars, rxVars, experimentVars, langfuseVars, transformerVars,
                   proxied, cycle>>

\* restoreConsole(), lines 27-35: console is the original again and every
\* entry of logs is applied to it, in order
RestoreConsole ==
    /\ proxied
    /\ proxied' = FALSE
    /\ printed' = printed \o logs
    /\ UNCHANGED <<agentVars, rxVars, experimentVars, langfuseVars, transformerVars,
                   logs, consoleCalls, cycle>>

ConsoleStep ==
    \/ ProxyConsole
    \/ \E method \in Methods : ConsoleCall(method)
    \/ RestoreConsole

ConsoleSpec == ConsoleInit /\ [][ConsoleStep]_vars

\* how often call c reached the original console
TimesPrinted(c) == Cardinality({k \in 1..Len(printed) : printed[k] = c})

\* the calls made in a cycle through methods other than error, in order
Suppressed(n) ==
    SelectSeq(consoleCalls, LAMBDA c : c.cycle = n /\ c.method # "error")

\* ---- claims

\* (C38) A console call made while the console is proxied, through a method
\* other than error, is suppressed until the restoreConsole that ends its
\* cycle, which replays it: it is never printed more than once, while its
\* cycle is open it is not printed, and once its cycle has ended it was
\* printed exactly once, the calls of a cycle in the order they were made.
\* A console.error call is printed at once, exactly once, and is never put
\* in the buffer.
C38_ReplayedExactlyOnce ==
    /\ \A k \in 1..Len(consoleCalls) :
          LET c == consoleCalls[k]
          IN  /\ TimesPrinted(c) <= 1
              /\ (c.method # "error" /\ c.cycle # 0) =>
                    TimesPrinted(c) = IF proxied /\ c.cycle = cycle THEN 0 ELSE 1
              /\ c.method = "error" =>
                    /\ TimesPrinted(c) = 1
                    /\ \A j \in 1..Len(logs) : logs[j] # c
    /\ \A n \in 1..MaxCycles :
          (n < cycle \/ (n = cycle /\ ~proxied)) =>
             IsSubsequence(Suppressed(n), printed)

====
